---- MODULE Spec2Model ----
(***************************************************************************)
(* A model of yaml-injektr: the front-matter transform of core.py and the  *)
(* batch run of cli.py.  Texts are sequences of characters; every text     *)
(* operation of the source (splitlines, rstrip, strip, replace, the uuid   *)
(* line pattern) is computed character by character as Python computes it. *)
(***************************************************************************)
EXTENDS Integers, Sequences, FiniteSets, TLC

VARIABLES
    text,           \* transform_markdown: the document text handed in
    payload_text,   \* transform_markdown: the payload text handed in
    preserve_uuid,  \* transform_markdown: the preserve flag
    result,         \* what the call returned (or that it raised)
    rerun,          \* what a second call on the returned text returned
    tpc,            \* position of the transform harness
    fsys,           \* the markdown files under the target: path -> bytes
    fsys0,          \* fsys as it was when the run started
    payload_file,   \* bytes of the payload file
    year_month_arg, \* args.year_month: [some, value]
    apply,          \* args.apply
    pc,             \* position of main()
    run_payload,    \* main's payload_text once normalised
    files,          \* the list collect_target_files returned
    needs_file_date,
    fallback_year_month,  \* [some, year, month]
    next_file,      \* index in files of the next file of the loop
    io_log,         \* what the operating system did for each file so far
    records,        \* main's records list
    emitted,        \* the records main printed for the skipped directories
    usage_message,  \* what main printed when it ended with a usage error
    exit_code,      \* what main returned, -1 while it has not
    target_tree,    \* collect_target_files: what is under the target
    glob,           \* collect_target_files: the pattern handed in
    exclude_set,    \* collect_target_files: the exclude_dirs handed in
    platform,       \* the platform of the call: [os_name, fs_case_insensitive]
    walk_order,     \* the order in which the file system enumerates names
    found,          \* what the call returned: [files, skipped_dirs]
    walk_order2,    \* the enumeration order of a second call on the same tree
    found2,         \* what the second call returned
    dpc,            \* position of the discovery harness
    raw_payload,    \* normalize_payload_text: the payload text handed in
    normalized,     \* what the call returned (or that it raised)
    renormalized,   \* what a second call on the returned text returned
    npc,            \* position of the normalisation harness
    clock,          \* generate_uuidv7: int(time.time() * 1000), hexadecimal
    rand_a,         \* generate_uuidv7: secrets.randbits(12), hexadecimal
    rand_b,         \* generate_uuidv7: secrets.randbits(62), hexadecimal
    generated,      \* generate_uuidv7: the string it returned
    gpc             \* position of the identifier harness

tvars == <<text, payload_text, preserve_uuid, result, rerun, tpc>>

rvars == <<fsys, fsys0, payload_file, year_month_arg, apply, pc, run_payload,
           files, needs_file_date, fallback_year_month, next_file, io_log,
           records, emitted, usage_message, exit_code>>

dvars == <<target_tree, glob, exclude_set, platform, walk_order, found,
           walk_order2, found2, dpc>>

nvars == <<raw_payload, normalized, renormalized, npc>>

gvars == <<clock, rand_a, rand_b, generated, gpc>>

vars == <<tvars, rvars, dvars, nvars, gvars>>

----------------------------------------------------------------------------
(* Characters *)

LF == "\n"
CR == "\r"
FF == "\f"
TAB == "\t"
SP == " "
BOM == "BOM"

\* str.splitlines() ends a line at \n, \r, \r\n and at the other universal
\* line boundaries (\v, \f, \x1c..\x1e, \x85, U+2028, U+2029); FF stands for those.
LineBoundaries == {LF, CR, FF}

\* What \s and str.strip() take as whitespace.
WhiteSpace == {SP, TAB, LF, CR, FF}

Dashes == <<"-", "-", "-">>
Dots == <<".", ".", ".">>
UuidKey == <<"u", "u", "i", "d">>
UuidToken == <<"{", "u", "u", "i", "d", "v", "7", "}">>

_CLOSE_MARKERS == {Dashes, Dots}

----------------------------------------------------------------------------
(* Python string operations *)

SetMin(S) == CHOOSE x \in S : \A y \in S : x <= y
SetMax(S) == CHOOSE x \in S : \A y \in S : x >= y

RECURSIVE Concat(_)
\* "".join(parts)
Concat(parts) == IF parts = <<>> THEN <<>> ELSE Head(parts) \o Concat(Tail(parts))

\* s[p-1:].startswith(w), p counted from 1
HasAt(s, p, w) ==
    /\ p + Len(w) - 1 <= Len(s)
    /\ \A i \in 1..Len(w) : s[p + i - 1] = w[i]

\* sub in s
Contains(s, sub) == \E p \in 1..(Len(s) + 1) : HasAt(s, p, sub)

RECURSIVE splitlines(_)
\* s.splitlines(keepends=True)
splitlines(s) ==
    IF s = <<>> THEN <<>>
    ELSE LET brk == {i \in 1..Len(s) : s[i] \in LineBoundaries}
         IN  IF brk = {} THEN <<s>>
             ELSE LET i == SetMin(brk)
                      e == IF s[i] = CR /\ i < Len(s) /\ s[i + 1] = LF THEN i + 1 ELSE i
                  IN  <<SubSeq(s, 1, e)>> \o splitlines(SubSeq(s, e + 1, Len(s)))

RECURSIVE rstrip_crlf(_)
\* s.rstrip("\r\n")
rstrip_crlf(s) ==
    IF s # <<>> /\ s[Len(s)] \in {CR, LF}
    THEN rstrip_crlf(SubSeq(s, 1, Len(s) - 1))
    ELSE s

\* s.strip()
strip(s) ==
    LET idx == {i \in 1..Len(s) : s[i] \notin WhiteSpace}
    IN  IF idx = {} THEN <<>> ELSE SubSeq(s, SetMin(idx), SetMax(idx))

RECURSIVE replace(_, _, _)
\* s.replace(old, new), old not empty
replace(s, old, new) ==
    IF s = <<>> THEN <<>>
    ELSE IF HasAt(s, 1, old)
         THEN new \o replace(SubSeq(s, Len(old) + 1, Len(s)), old, new)
         ELSE <<s[1]>> \o replace(Tail(s), old, new)

\* s.endswith(("\n", "\r"))
EndsWithNewline(s) == s # <<>> /\ s[Len(s)] \in {LF, CR}

----------------------------------------------------------------------------
(* core.py *)

detect_newline(t) ==
    IF Contains(t, <<CR, LF>>) THEN <<CR, LF>> ELSE <<LF>>

_strip_bom(t) == IF t # <<>> /\ t[1] = BOM THEN Tail(t) ELSE t

\* _coerce_newlines without the two normalising replacements
_coerce_newlines_unnormalised(t, newline) == replace(t, <<LF>>, newline)

_coerce_newlines(t, newline) ==
    replace(replace(replace(t, <<CR, LF>>, <<LF>>), <<CR>>, <<LF>>), <<LF>>, newline)

\* index of the first line after the first whose marker closes the block, 0 if none
FirstCloser(lines) ==
    LET hits == {i \in 2..Len(lines) : rstrip_crlf(lines[i]) \in _CLOSE_MARKERS}
    IN  IF hits = {} THEN 0 ELSE SetMin(hits)

\* normalize_payload_text unwrapping up to the last closing line
normalize_payload_text_to_last_closer(p) ==
    LET payload == _strip_bom(p)
        lines == splitlines(payload)
        hits == {i \in 2..Len(lines) : rstrip_crlf(lines[i]) \in _CLOSE_MARKERS}
    IN  IF lines = <<>> THEN [raised |-> FALSE, value |-> payload]
        ELSE IF rstrip_crlf(lines[1]) # Dashes THEN [raised |-> FALSE, value |-> payload]
        ELSE IF hits # {}
             THEN [raised |-> FALSE,
                   value |-> Concat(SubSeq(lines, 2, SetMax(hits) - 1))]
             ELSE [raised |-> TRUE, value |-> <<>>]

\* raised: the ValueError of line 52
normalize_payload_text(p) ==
    LET payload == _strip_bom(p)
        lines == splitlines(payload)
    IN  IF lines = <<>> THEN [raised |-> FALSE, value |-> payload]
        ELSE IF rstrip_crlf(lines[1]) # Dashes THEN [raised |-> FALSE, value |-> payload]
        ELSE LET index == FirstCloser(lines)
             IN  IF index # 0
                 THEN [raised |-> FALSE, value |-> Concat(SubSeq(lines, 2, index - 1))]
                 ELSE [raised |-> TRUE, value |-> <<>>]

NoClosingMarker == "Front matter starts with '---' but has no closing marker."

\* _parse_frontmatter that takes an unclosed block for body text
_parse_frontmatter_unclosed_is_body(t) ==
    LET lines == splitlines(t)
        index == FirstCloser(lines)
    IN  IF lines = <<>> \/ rstrip_crlf(lines[1]) # Dashes \/ index = 0
        THEN [had |-> FALSE, frontmatter |-> <<>>, body |-> t, error |-> ""]
        ELSE [had |-> TRUE,
              frontmatter |-> Concat(SubSeq(lines, 2, index - 1)),
              body |-> Concat(SubSeq(lines, index + 1, Len(lines))),
              error |-> ""]

\* _parse_frontmatter that takes the first "---" line of the text, wherever it
\* is, for the opening line
_parse_frontmatter_anywhere(t) ==
    LET lines == splitlines(t)
        opens == {i \in 1..Len(lines) : rstrip_crlf(lines[i]) = Dashes}
    IN  IF opens = {}
        THEN [had |-> FALSE, frontmatter |-> <<>>, body |-> t, error |-> ""]
        ELSE LET first == SetMin(opens)
                 rest == SubSeq(lines, first, Len(lines))
                 index == FirstCloser(rest)
             IN  IF index # 0
                 THEN [had |-> TRUE,
                       frontmatter |-> Concat(SubSeq(rest, 2, index - 1)),
                       body |-> Concat(SubSeq(rest, index + 1, Len(rest))),
                       error |-> ""]
                 ELSE [had |-> TRUE, frontmatter |-> <<>>, body |-> t,
                       error |-> NoClosingMarker]

_parse_frontmatter(t) ==
    LET lines == splitlines(t)
    IN  IF lines = <<>>
        THEN [had |-> FALSE, frontmatter |-> <<>>, body |-> t, error |-> ""]
        ELSE IF rstrip_crlf(lines[1]) # Dashes
        THEN [had |-> FALSE, frontmatter |-> <<>>, body |-> t, error |-> ""]
        ELSE LET index == FirstCloser(lines)
             IN  IF index # 0
                 THEN [had |-> TRUE,
                       frontmatter |-> Concat(SubSeq(lines, 2, index - 1)),
                       body |-> Concat(SubSeq(lines, index + 1, Len(lines))),
                       error |-> ""]
                 ELSE [had |-> TRUE, frontmatter |-> <<>>, body |-> t,
                       error |-> NoClosingMarker]

\* length of the run of whitespace of s that starts at p (greedy \s*)
WsRun(s, p) ==
    LET stops == {q \in p..(Len(s) + 1) : q = Len(s) + 1 \/ s[q] \notin WhiteSpace}
    IN  SetMin(stops) - p

\* length of the run of characters other than \r and \n that starts at p (greedy [^\r\n]*)
ValueRun(s, p) ==
    LET stops == {q \in p..(Len(s) + 1) : q = Len(s) + 1 \/ s[q] \in {CR, LF}}
    IN  SetMin(stops) - p

\* (\r?\n|$) at position e under re.MULTILINE: the length matched, -1 if it fails
LineEndAt(s, e) ==
    IF e < Len(s) /\ s[e] = CR /\ s[e + 1] = LF THEN 2
    ELSE IF e <= Len(s) /\ s[e] = LF THEN 1
    ELSE IF e = Len(s) + 1 THEN 0
    ELSE -1

NoMatch == [found |-> FALSE]

\* _UUID_LINE_RE matched at position p of s, the backtracking order of re: the
\* longest post-colon whitespace first, then the longest value.
UuidMatchAt(s, p) ==
    IF ~HasAt(s, p, UuidKey) THEN NoMatch
    ELSE LET c == p + 4 + WsRun(s, p + 4)
         IN  IF ~(c <= Len(s) /\ s[c] = ":") THEN NoMatch
             ELSE LET m == WsRun(s, c + 1)
                      W == {w \in 0..m :
                              LineEndAt(s, c + 1 + w + ValueRun(s, c + 1 + w)) >= 0}
                  IN  IF W = {} THEN NoMatch
                      ELSE LET w == SetMax(W)
                               vs == c + 1 + w
                               ve == vs + ValueRun(s, vs)
                               le == LineEndAt(s, ve)
                           IN  [found |-> TRUE,
                                start |-> p,
                                stop |-> ve + le,
                                key_ws |-> SubSeq(s, p + 4, c - 1),
                                post_colon_ws |-> SubSeq(s, c + 1, vs - 1),
                                value |-> SubSeq(s, vs, ve - 1),
                                line_end |-> SubSeq(s, ve, ve + le - 1)]

\* _UUID_LINE_RE.search(s): ^ is the start of s or the position after a \n
_UUID_LINE_RE_search(s) ==
    LET starts == {p \in 1..Len(s) :
                     /\ p = 1 \/ s[p - 1] = LF
                     /\ UuidMatchAt(s, p).found}
    IN  IF starts = {} THEN NoMatch ELSE UuidMatchAt(s, SetMin(starts))

\* None is [some |-> FALSE]
_extract_uuid_value(frontmatter_text) ==
    LET match == _UUID_LINE_RE_search(frontmatter_text)
    IN  IF ~match.found THEN [some |-> FALSE, value |-> <<>>]
        ELSE [some |-> TRUE, value |-> strip(match.value)]

_replace_first_uuid_value(t, value) ==
    LET match == _UUID_LINE_RE_search(t)
    IN  IF ~match.found THEN [text |-> t, replaced |-> FALSE]
        ELSE [text |-> SubSeq(t, 1, match.start - 1)
                       \o UuidKey \o match.key_ws \o <<":">> \o match.post_colon_ws
                       \o value \o match.line_end
                       \o SubSeq(t, match.stop, Len(t)),
              replaced |-> TRUE]

_prepend_uuid_line(payload, uuid_value, newline) ==
    UuidKey \o <<":", SP>> \o uuid_value \o newline \o payload

_is_uuidv7_token(value_text) ==
    LET candidate == strip(value_text)
        inner == IF /\ Len(candidate) >= 2
                    /\ candidate[1] = candidate[Len(candidate)]
                    /\ candidate[1] \in {"\"", "'"}
                 THEN strip(SubSeq(candidate, 2, Len(candidate) - 1))
                 ELSE candidate
    IN  inner = UuidToken

\* The stages of transform_markdown, last first.  Each stage receives what
\* the stages before it computed, as the local variables of the function do.

\* transform_markdown: payload_block, transformed and the return
transform_assemble(newline, body, payload, info) ==
    [raised |-> FALSE,
     text |-> Dashes \o newline
              \o (IF payload # <<>> /\ ~EndsWithNewline(payload)
                  THEN payload \o newline ELSE payload)
              \o Dashes \o newline \o body,
     info |-> info]

\* transform_markdown: the identifier is preserved, generated or left alone
transform_uuid(newline, body, info, payload, existing_uuid, preserving, rep, match, gen) ==
    IF preserving
    THEN transform_assemble(newline, body,
             IF rep.replaced THEN rep.text
             ELSE _prepend_uuid_line(payload, existing_uuid.value, newline),
             [info EXCEPT !.preserved_uuid = TRUE])
    ELSE IF match.found /\ _is_uuidv7_token(match.value)
    THEN transform_assemble(newline, body,
             _replace_first_uuid_value(payload, gen).text,
             [info EXCEPT !.generated_uuid = TRUE])
    ELSE transform_assemble(newline, body, payload, info)

\* transform_markdown: the payload with the document's newline, and the
\* identifier the document has
transform_payload(newline, body, info, payload, existing_uuid, preserve, gen) ==
    transform_uuid(newline, body, info, payload, existing_uuid,
                   preserve /\ existing_uuid.some,
                   _replace_first_uuid_value(payload, existing_uuid.value),
                   _UUID_LINE_RE_search(payload), gen)

\* transform_markdown: the payload is normalised
transform_normalized(newline, parsed, info, norm, preserve, gen) ==
    IF norm.raised
    THEN [raised |-> TRUE, text |-> <<>>, info |-> info]
    ELSE transform_payload(newline, parsed.body, info,
             _coerce_newlines(norm.value, newline),
             IF parsed.had THEN _extract_uuid_value(parsed.frontmatter)
             ELSE [some |-> FALSE, value |-> <<>>],
             preserve, gen)

\* transform_markdown: the document is parsed
transform_parsed(clean_text, newline, parsed, info, p, preserve, gen) ==
    IF parsed.error # ""
    THEN [raised |-> FALSE, text |-> clean_text,
          info |-> [info EXCEPT !.error = TRUE, !.reason = parsed.error]]
    ELSE transform_normalized(newline, parsed, info,
                              normalize_payload_text(p), preserve, gen)

transform_clean(clean_text, parsed, p, preserve, gen) ==
    transform_parsed(clean_text, detect_newline(clean_text), parsed,
        [had_frontmatter |-> parsed.had, preserved_uuid |-> FALSE,
         generated_uuid |-> FALSE, error |-> FALSE, reason |-> ""],
        p, preserve, gen)

\* transform_markdown(text, payload_text, preserve_uuid): [raised, text, info];
\* gen is what generate_uuidv7() returns when this call reaches it
transform_markdown(t, p, preserve, gen) ==
    transform_clean(_strip_bom(t), _parse_frontmatter(_strip_bom(t)), p,
                    preserve, gen)

----------------------------------------------------------------------------
(* core.py: generate_uuidv7.  Python's integers are unbounded; an integer is
   the sequence of its hexadecimal digits, most significant first (leading
   zeros allowed, <<>> is 0), and the bit operations work on those digits. *)

HexChars == <<"0", "1", "2", "3", "4", "5", "6", "7",
              "8", "9", "a", "b", "c", "d", "e", "f">>

Zeros(n) == [i \in 1..n |-> 0]

\* (1 << bits) - 1, bits a multiple of 4
LowBitsMask(bits) == [i \in 1..(bits \div 4) |-> 15]

\* x with leading zero digits up to n digits
PadLeft(x, n) == IF Len(x) < n THEN Zeros(n - Len(x)) \o x ELSE x

\* bit k of hexadecimal digit d
BitOf(d, k) == (d \div (2 ^ k)) % 2

NibbleAnd(a, b) ==
    BitOf(a, 0) * BitOf(b, 0) + 2 * BitOf(a, 1) * BitOf(b, 1)
    + 4 * BitOf(a, 2) * BitOf(b, 2) + 8 * BitOf(a, 3) * BitOf(b, 3)

NibbleOr(a, b) == a + b - NibbleAnd(a, b)

\* x & y
BitAnd(x, y) ==
    LET n == IF Len(x) > Len(y) THEN Len(x) ELSE Len(y)
    IN  [i \in 1..n |-> NibbleAnd(PadLeft(x, n)[i], PadLeft(y, n)[i])]

\* x | y
BitOr(x, y) ==
    LET n == IF Len(x) > Len(y) THEN Len(x) ELSE Len(y)
    IN  [i \in 1..n |-> NibbleOr(PadLeft(x, n)[i], PadLeft(y, n)[i])]

RECURSIVE MulSmall(_, _, _)
\* x * m + carry, m < 16
MulSmall(x, m, carry) ==
    IF x = <<>> THEN (IF carry = 0 THEN <<>> ELSE <<carry>>)
    ELSE LET d == x[Len(x)] * m + carry
         IN  MulSmall(SubSeq(x, 1, Len(x) - 1), m, d \div 16) \o <<d % 16>>

\* x << bits
ShiftLeft(x, bits) == MulSmall(x, 2 ^ (bits % 4), 0) \o Zeros(bits \div 4)

\* f"{value:032x}"
Format032x(value) ==
    LET nonzero == {i \in 1..Len(value) : value[i] # 0}
        digits == IF nonzero = {} THEN <<0>>
                  ELSE SubSeq(value, SetMin(nonzero), Len(value))
        padded == PadLeft(digits, 32)
    IN  [i \in 1..Len(padded) |-> HexChars[padded[i] + 1]]

\* s[a:b]
Slice(s, a, b) == SubSeq(s, a + 1, IF b < Len(s) THEN b ELSE Len(s))

\* generate_uuidv7: value, hex32 and the returned string
uuidv7_of(unix_ms, a, b) ==
    LET value == BitOr(BitOr(BitOr(BitOr(ShiftLeft(unix_ms, 80),
                                         ShiftLeft(<<7>>, 76)),
                                   ShiftLeft(a, 64)),
                             ShiftLeft(<<2>>, 62)),
                       b)
        hex32 == Format032x(value)
    IN  Slice(hex32, 0, 8) \o <<"-">> \o Slice(hex32, 8, 12) \o <<"-">>
        \o Slice(hex32, 12, 16) \o <<"-">> \o Slice(hex32, 16, 20) \o <<"-">>
        \o Slice(hex32, 20, 32)

\* generate_uuidv7 without the 48-bit mask on the clock
generate_uuidv7_unmasked(ms, a, b) == uuidv7_of(ms, a, b)

\* generate_uuidv7(), with ms = int(time.time() * 1000), a = secrets.randbits(12)
\* and b = secrets.randbits(62)
generate_uuidv7(ms, a, b) == uuidv7_of(BitAnd(ms, LowBitsMask(48)), a, b)

----------------------------------------------------------------------------
(* The inputs of the transform harness *)

MaxDocPieces == 3
MaxStyledPieces == 3

UuidLineA == UuidKey \o <<":", SP, "a">>
UuidLineB == UuidKey \o <<":", SP, "b">>
UuidLineZ == UuidKey \o <<":", SP, "z">>
UuidLineEmpty == UuidKey \o <<":">>
UuidLineToken == UuidKey \o <<":", SP>> \o UuidToken
UuidLineQuotedToken == UuidKey \o <<":", SP, "\"">> \o UuidToken \o <<"\"">>

\* A document is a run of at most MaxDocPieces of these pieces; "t" has no
\* line terminator, so it also joins the piece after it into one longer line.
DocPieces == {Dashes \o <<LF>>,
              Dots \o <<LF>>,
              UuidLineA \o <<LF>>,
              <<SP>> \o UuidLineB \o <<LF>>,
              <<"t">>,
              <<BOM>>}

\* A payload is a first fragment followed by a second one.
PayloadHeads == {<<>>,
                 Dashes \o <<LF>>,
                 UuidLineZ \o <<LF>>,
                 UuidLineEmpty \o <<LF>>,
                 UuidLineToken \o <<LF>>,
                 UuidLineQuotedToken \o <<LF>>,
                 <<SP>> \o UuidLineToken \o <<LF>>,
                 <<"t", CR, LF>>}
PayloadTails == {<<>>,
                 <<"t", LF>>,
                 <<"t">>,
                 Dashes \o <<LF>>,
                 UuidToken \o <<LF>>,
                 <<SP>> \o UuidLineToken \o <<LF>>}

\* The documents and payloads of the newline harness: pieces that carry their
\* own line terminator, so that documents are CRLF throughout, LF only or mixed.
StyledDocPieces == {Dashes \o <<CR, LF>>, Dashes \o <<LF>>,
                    UuidLineA \o <<CR, LF>>, UuidLineA \o <<LF>>,
                    <<"t", CR, LF>>, <<"t", LF>>, <<"t">>}
StyledPayloads == {<<>>,
                   <<"t">>,
                   <<"t", LF>>,
                   <<"t", CR, LF>>,
                   <<"t", CR>>,
                   UuidLineZ \o <<LF>>,
                   UuidLineZ \o <<CR, LF, "t", CR>>,
                   UuidLineToken,
                   UuidLineToken \o <<CR, LF>>,
                   <<"t", LF>> \o UuidLineEmpty \o <<CR>>}

PieceSeqs(pieces, max) == UNION {[1..n -> pieces] : n \in 0..max}

Documents == {Concat(ps) : ps \in PieceSeqs(DocPieces, MaxDocPieces)}
Payloads == {h \o t : h \in PayloadHeads, t \in PayloadTails}
StyledDocuments == {Concat(ps) : ps \in PieceSeqs(StyledDocPieces, MaxStyledPieces)}

\* values generate_uuidv7() can return: two calls within one millisecond
GeneratedIds ==
    {generate_uuidv7(<<1, 8, 11, 12, 15, 14, 5, 6, 8, 0, 0>>, <<3, 2, 7>>, b) :
        b \in {<<1, 0, 0, 0, 0, 0, 0, 0, 0, 0, 0, 0, 0, 0, 0, 0>>,
                <<2, 14, 1, 0, 4, 7, 2, 11, 8, 6, 0, 2, 9, 13, 5, 12>>}}

None == [raised |-> FALSE, text |-> <<>>, info |-> "none"]

----------------------------------------------------------------------------
(* cli.py: characters, numbers and paths *)

\* a byte that is not valid UTF-8
XFF == "XFF"

DigitChars == <<"0", "1", "2", "3", "4", "5", "6", "7", "8", "9">>
Letters == {"a", "b", "c", "d", "e", "f", "g", "h", "i", "j", "k", "l", "m",
            "n", "o", "p", "q", "r", "s", "t", "u", "v", "w", "x", "y", "z",
            "Y"}

\* \d
IsDigit(c) == \E i \in 1..Len(DigitChars) : DigitChars[i] = c
DigitVal(c) == (CHOOSE i \in 1..Len(DigitChars) : DigitChars[i] = c) - 1
\* \w
IsWordChar(c) == IsDigit(c) \/ c = "_" \/ c \in Letters

RECURSIVE int(_)
\* int(digits)
int(ds) == IF ds = <<>> THEN 0 ELSE 10 * int(SubSeq(ds, 1, Len(ds) - 1)) + DigitVal(ds[Len(ds)])

RECURSIVE Decimal(_)
\* the decimal digits of n, without padding
Decimal(n) == IF n < 10 THEN <<DigitChars[n + 1]>>
              ELSE Decimal(n \div 10) \o <<DigitChars[(n % 10) + 1]>>

RECURSIVE ZeroPad(_, _)
\* the decimal digits of n, zero-padded to width w
ZeroPad(n, w) == IF Len(Decimal(n)) >= w THEN Decimal(n)
                 ELSE <<"0">> \o ZeroPad(n, w - 1)

\* The characters of the paths of the model in code point order, the order
\* in which Python compares strings.
CodePointOrder == <<"-", ".", "/", "0", "1", "2", "3", "4", "5", "6", "7",
                    "8", "9", "A", "B", "C", "D", "E", "F", "G", "H", "I",
                    "J", "K", "L", "M", "N", "O", "P", "Q", "R", "S", "T",
                    "U", "V", "W", "X", "Y", "Z", "_", "a", "b", "c", "d",
                    "e", "f", "g", "h", "i", "j", "k", "l", "m", "n", "o",
                    "p", "q", "r", "s", "t", "u", "v", "w", "x", "y", "z">>
OrdOf ==
    [c \in {CodePointOrder[i] : i \in 1..Len(CodePointOrder)} |->
        CHOOSE i \in 1..Len(CodePointOrder) : CodePointOrder[i] = c]
ord(c) == OrdOf[c]

\* a < b for strings
StrLess(a, b) ==
    \E k \in 1..(Len(a) + 1) :
        /\ k <= Len(b)
        /\ \A j \in 1..(k - 1) : a[j] = b[j]
        /\ (k = Len(a) + 1 \/ ord(a[k]) < ord(b[k]))

\* Path.name
PathName(path) ==
    LET slashes == {i \in 1..Len(path) : path[i] = "/"}
    IN  IF slashes = {} THEN path
        ELSE SubSeq(path, SetMax(slashes) + 1, Len(path))

\* Path.stem
PathStem(path) ==
    LET name == PathName(path)
        dots == {i \in 1..Len(name) : name[i] = "."}
    IN  IF dots # {} /\ SetMax(dots) > 1 /\ SetMax(dots) < Len(name)
        THEN SubSeq(name, 1, SetMax(dots) - 1)
        ELSE name

\* bytes.decode("utf-8-sig"): a byte sequence is written as the characters it
\* encodes, XFF being a byte that encodes none; one leading BOM is dropped
decode_utf8_sig(bytes) ==
    IF \E i \in 1..Len(bytes) : bytes[i] = XFF
    THEN [raised |-> TRUE, value |-> <<>>]
    ELSE [raised |-> FALSE,
          value |-> IF bytes # <<>> /\ bytes[1] = BOM THEN Tail(bytes) ELSE bytes]

\* str.encode("utf-8"): every character of a str has an encoding, and no
\* byte order mark is added
encode_utf8(chars) == [i \in 1..Len(chars) |-> chars[i]]

----------------------------------------------------------------------------
(* cli.py: the file date *)

FileDateOpen == <<"{", "f", "i", "l", "e", "_", "d", "a", "t", "e">>

NoYearMonth == [some |-> FALSE, year |-> 0, month |-> 0]

\* _DAY_PREFIX_RE.match(stem): one or two digits, as many as possible, then
\* a word boundary or an underscore
_DAY_PREFIX_RE_match(stem) ==
    LET ks == {k \in 1..2 :
                 /\ k <= Len(stem)
                 /\ \A j \in 1..k : IsDigit(stem[j])
                 /\ \/ k = Len(stem)
                    \/ ~IsWordChar(stem[k + 1])
                    \/ stem[k + 1] = "_"}
    IN  IF ks = {} THEN [found |-> FALSE, day |-> <<>>]
        ELSE [found |-> TRUE, day |-> SubSeq(stem, 1, SetMax(ks))]

\* _YEAR_MONTH_PATH_RE matches at position p of s
YearMonthAt(s, p) ==
    /\ p + 6 <= Len(s)
    /\ \A j \in 0..3 : IsDigit(s[p + j])
    /\ s[p + 4] \in {"-", "_"}
    /\ IsDigit(s[p + 5])
    /\ IsDigit(s[p + 6])

RECURSIVE LastYearMonthFrom(_, _, _)
\* list(_YEAR_MONTH_PATH_RE.finditer(s))[-1]: the matches are found left to
\* right and do not overlap; 0 when there is none
LastYearMonthFrom(s, pos, last) ==
    LET ps == {p \in pos..Len(s) : YearMonthAt(s, p)}
    IN  IF ps = {} THEN last
        ELSE LastYearMonthFrom(s, SetMin(ps) + 7, SetMin(ps))

extract_year_month_from_path(path_text) ==
    LET p == LastYearMonthFrom(path_text, 1, 0)
        year == int(SubSeq(path_text, p, p + 3))
        month == int(SubSeq(path_text, p + 5, p + 6))
    IN  IF p = 0 THEN NoYearMonth
        ELSE IF ~(1 <= month /\ month <= 12) THEN NoYearMonth
        ELSE [some |-> TRUE, year |-> year, month |-> month]

parse_year_month_flag(value) ==
    LET v == strip(value)
        year == int(SubSeq(v, 1, 4))
        month == int(SubSeq(v, 6, 7))
    IN  IF ~(Len(v) = 7 /\ YearMonthAt(v, 1))
        THEN [raised |-> TRUE, year |-> 0, month |-> 0]
        ELSE IF ~(1 <= month /\ month <= 12)
        THEN [raised |-> TRUE, year |-> 0, month |-> 0]
        ELSE [raised |-> FALSE, year |-> year, month |-> month]

IsLeap(year) == (year % 4 = 0 /\ year % 100 # 0) \/ year % 400 = 0

DaysInMonth(year, month) ==
    IF month = 2 THEN (IF IsLeap(year) THEN 29 ELSE 28)
    ELSE IF month \in {4, 6, 9, 11} THEN 30 ELSE 31

\* datetime.date(year, month, day) does not raise ValueError
date_valid(year, month, day) ==
    /\ 1 <= year /\ year <= 9999
    /\ 1 <= month /\ month <= 12
    /\ 1 <= day /\ day <= DaysInMonth(year, month)

\* date.isoformat()
isoformat(d) == ZeroPad(d.year, 4) \o <<"-">> \o ZeroPad(d.month, 2)
                \o <<"-">> \o ZeroPad(d.day, 2)

RECURSIVE strftime(_, _)
\* date.strftime(fmt) for the directives %Y, %m, %d and %%; any other
\* character pair is copied, as the C library copies an unknown directive
strftime(d, fmt) ==
    IF fmt = <<>> THEN <<>>
    ELSE IF fmt[1] = "%" /\ Len(fmt) >= 2
    THEN (CASE fmt[2] = "Y" -> Decimal(d.year)
            [] fmt[2] = "m" -> ZeroPad(d.month, 2)
            [] fmt[2] = "d" -> ZeroPad(d.day, 2)
            [] fmt[2] = "%" -> <<"%">>
            [] OTHER -> <<"%", fmt[2]>>)
         \o strftime(d, SubSeq(fmt, 3, Len(fmt)))
    ELSE <<fmt[1]>> \o strftime(d, Tail(fmt))

\* _FILE_DATE_TOKEN_RE matches at the start of s: [len, has_fmt, fmt], len 0
\* when it does not match
FileDateTokenAt(s) ==
    LET q == Len(FileDateOpen) + 1
        closers == {r \in (q + 1)..Len(s) : s[r] = "}"}
        none == [len |-> 0, has_fmt |-> FALSE, fmt |-> <<>>]
    IN  IF ~HasAt(s, 1, FileDateOpen) \/ Len(s) < q THEN none
        ELSE IF s[q] = "}" THEN [len |-> q, has_fmt |-> FALSE, fmt |-> <<>>]
        ELSE IF s[q] = ":" /\ closers # {} /\ SetMin(closers) >= q + 2
        THEN [len |-> SetMin(closers), has_fmt |-> TRUE,
              fmt |-> SubSeq(s, q + 1, SetMin(closers) - 1)]
        ELSE none

RECURSIVE substitute_file_date_tokens(_, _)
substitute_file_date_tokens(s, file_date) ==
    IF s = <<>> THEN <<>>
    ELSE LET tok == FileDateTokenAt(s)
         IN  IF tok.len = 0
             THEN <<s[1]>> \o substitute_file_date_tokens(Tail(s), file_date)
             ELSE (IF tok.has_fmt THEN strftime(file_date, tok.fmt)
                   ELSE isoformat(file_date))
                  \o substitute_file_date_tokens(SubSeq(s, tok.len + 1, Len(s)),
                                                 file_date)

----------------------------------------------------------------------------
(* cli.py: one file *)

\* the record process_file starts from; file_date <<>> is the key left out
NewRecord(path) ==
    [path |-> path, status |-> "error", had_frontmatter |-> FALSE,
     preserved_uuid |-> FALSE, generated_uuid |-> FALSE, reason |-> "",
     file_date |-> <<>>]

NoCall == [made |-> FALSE, text |-> <<>>, payload |-> <<>>, result |-> None]

\* what process_file hands back: the record it returns, the file system it
\* leaves, whether an exception left it instead of a record, and the call of
\* transform_markdown it made
Return(record, fs, call) ==
    [record |-> record, fsys |-> fs, raised |-> FALSE, call |-> call]

\* atomic_write: the temporary file replaces the target in one step, or an
\* OSError leaves the target as it was (io = "write_failed")
atomic_write(fs, path, content, io) ==
    IF io = "write_failed"
    THEN [raised |-> TRUE, fsys |-> fs]
    ELSE [raised |-> FALSE, fsys |-> [fs EXCEPT ![path] = content]]

\* process_file, the file date: [error, payload, file_date]
DateFailed(reason, payload) ==
    [error |-> reason, payload |-> payload, file_date |-> <<>>]

process_file_date_of(payload, day_match, year_month) ==
    IF ~day_match.found
    THEN DateFailed("date_parse_failed: missing day prefix", payload)
    ELSE IF ~year_month.some
    THEN DateFailed("date_parse_failed: year-month not found in path", payload)
    ELSE IF ~date_valid(year_month.year, year_month.month, int(day_match.day))
    THEN DateFailed("date_parse_failed: invalid date", payload)
    ELSE [error |-> "",
          payload |-> substitute_file_date_tokens(payload,
                         [year |-> year_month.year, month |-> year_month.month,
                          day |-> int(day_match.day)]),
          file_date |-> isoformat([year |-> year_month.year,
                                   month |-> year_month.month,
                                   day |-> int(day_match.day)])]

\* the choice as it would be if the fallback came before the path
YearMonthOr_fallback_first(in_path, fallback) ==
    IF fallback.some THEN fallback ELSE in_path

\* extract_year_month_from_path(str(path)) or fallback_year_month
YearMonthOr(in_path, fallback) == IF in_path.some THEN in_path ELSE fallback

process_file_date(path, payload, needs, fallback) ==
    IF ~needs THEN DateFailed("", payload)
    ELSE process_file_date_of(payload, _DAY_PREFIX_RE_match(PathStem(path)),
             YearMonthOr(extract_year_month_from_path(path), fallback))

\* process_file, the write with neither the comparison nor the apply test
process_file_unguarded_write(fs, path, record, raw_bytes, new_bytes, apply_flag, written) ==
    IF written.raised
    THEN Return([record EXCEPT !.status = "error", !.reason = "write_failed"],
                written.fsys, NoCall)
    ELSE Return([record EXCEPT !.status = "changed",
                               !.reason = IF apply_flag THEN "" ELSE "dry_run"],
                written.fsys, NoCall)

\* process_file, after the transform succeeded: compare, then write only in
\* apply mode; written is what atomic_write does if it is called
process_file_write(fs, path, record, raw_bytes, new_bytes, apply_flag, written) ==
    IF new_bytes = raw_bytes
    THEN Return([record EXCEPT !.status = "unchanged", !.reason = ""], fs, NoCall)
    ELSE IF ~apply_flag
    THEN Return([record EXCEPT !.status = "changed", !.reason = "dry_run"],
                fs, NoCall)
    ELSE IF written.raised
    THEN Return([record EXCEPT !.status = "error", !.reason = "write_failed"],
                written.fsys, NoCall)
    ELSE Return([record EXCEPT !.status = "changed", !.reason = ""],
                written.fsys, NoCall)

WithCall(ret, call) == [ret EXCEPT !.call = call]

\* process_file, from the return of transform_markdown on
process_file_transformed(fs, path, record, raw_bytes, transformed, call, apply_flag, io) ==
    IF transformed.raised
    THEN Return([record EXCEPT !.reason = "transform_failed"], fs, call)
    ELSE IF transformed.info.error
    THEN Return([record EXCEPT
                    !.had_frontmatter = transformed.info.had_frontmatter,
                    !.preserved_uuid = transformed.info.preserved_uuid,
                    !.generated_uuid = transformed.info.generated_uuid,
                    !.reason = IF transformed.info.reason # ""
                               THEN transformed.info.reason
                               ELSE "transform_error"],
                fs, call)
    ELSE WithCall(
            process_file_write(fs, path,
                [record EXCEPT
                    !.had_frontmatter = transformed.info.had_frontmatter,
                    !.preserved_uuid = transformed.info.preserved_uuid,
                    !.generated_uuid = transformed.info.generated_uuid],
                raw_bytes, encode_utf8(transformed.text), apply_flag,
                atomic_write(fs, path, encode_utf8(transformed.text), io)),
            call)

\* the call of transform_markdown process_file makes
TransformCall(doc, payload, gen) ==
    [made |-> TRUE, text |-> doc, payload |-> payload,
     result |-> transform_markdown(doc, payload, TRUE, gen)]

\* process_file from the file date on as it would be if a failed file date
\* did not end the call
process_file_dated_unchecked(fs, path, record, raw_bytes, doc, dated, call, apply_flag, io) ==
    process_file_transformed(fs, path,
        [record EXCEPT !.file_date = dated.file_date],
        raw_bytes, call.result, call, apply_flag, io)

\* process_file, from the file date on
process_file_dated(fs, path, record, raw_bytes, doc, dated, call, apply_flag, io) ==
    IF dated.error # ""
    THEN Return([record EXCEPT !.reason = dated.error], fs, NoCall)
    ELSE process_file_transformed(fs, path,
             [record EXCEPT !.file_date = dated.file_date],
             raw_bytes, call.result, call, apply_flag, io)

\* process_file, from the decoding of the bytes on
process_file_decoded(fs, path, record, raw_bytes, decoded, dated, apply_flag, io, gen) ==
    IF decoded.raised
    THEN Return([record EXCEPT !.reason = "decode_failed"], fs, NoCall)
    ELSE process_file_dated(fs, path, record, raw_bytes, decoded.value, dated,
             TransformCall(decoded.value, dated.payload, gen), apply_flag, io)

\* process_file with the decoding of the bytes outside any try: when it
\* fails the exception leaves process_file
process_file_decode_uncaught(fs, path, payload, apply_flag, needs, fallback, io, gen) ==
    IF io = "read_failed"
    THEN Return([NewRecord(path) EXCEPT !.reason = "read_failed"], fs, NoCall)
    ELSE IF decode_utf8_sig(fs[path]).raised
    THEN [record |-> NewRecord(path), fsys |-> fs, raised |-> TRUE,
          call |-> NoCall]
    ELSE process_file_decoded(fs, path, NewRecord(path), fs[path],
             decode_utf8_sig(fs[path]),
             process_file_date(path, payload, needs, fallback),
             apply_flag, io, gen)

\* process_file.  io is what the operating system does for this file: "ok",
\* or an OSError on reading ("read_failed") or on writing ("write_failed");
\* gen is what generate_uuidv7() returns if it is called.
process_file(fs, path, payload, apply_flag, needs, fallback, io, gen) ==
    IF io = "read_failed"
    THEN Return([NewRecord(path) EXCEPT !.reason = "read_failed"], fs, NoCall)
    ELSE process_file_decoded(fs, path, NewRecord(path), fs[path],
             decode_utf8_sig(fs[path]),
             process_file_date(path, payload, needs, fallback),
             apply_flag, io, gen)

----------------------------------------------------------------------------
(* cli.py: discovery *)

UpperChars == <<"A", "B", "C", "D", "E", "F", "G", "H", "I", "J", "K", "L", "M",
                "N", "O", "P", "Q", "R", "S", "T", "U", "V", "W", "X", "Y", "Z">>
LowerChars == <<"a", "b", "c", "d", "e", "f", "g", "h", "i", "j", "k", "l", "m",
                "n", "o", "p", "q", "r", "s", "t", "u", "v", "w", "x", "y", "z">>

\* str.casefold() and str.lower(), which agree on the characters of the paths
casefold(s) ==
    [i \in 1..Len(s) |->
        IF \E k \in 1..Len(UpperChars) : UpperChars[k] = s[i]
        THEN LowerChars[CHOOSE k \in 1..Len(UpperChars) : UpperChars[k] = s[i]]
        ELSE s[i]]

RECURSIVE fnmatchcase(_, _)
\* fnmatch.fnmatchcase(name, pat) for patterns made of characters, * and ?
fnmatchcase(name, pat) ==
    IF pat = <<>> THEN name = <<>>
    ELSE IF pat[1] = "*"
    THEN fnmatchcase(name, Tail(pat))
         \/ (name # <<>> /\ fnmatchcase(Tail(name), pat))
    ELSE /\ name # <<>>
         /\ (pat[1] = "?" \/ pat[1] = name[1])
         /\ fnmatchcase(Tail(name), Tail(pat))

\* fnmatch.fnmatch(name, pat): os.path.normcase lowers both where os.name is
\* "nt" and leaves both alone elsewhere
fnmatch(name, pat, nt) ==
    IF nt THEN fnmatchcase(casefold(name), casefold(pat))
    ELSE fnmatchcase(name, pat)

RECURSIVE PathParts(_)
\* PurePosixPath(s).parts for a relative path: the components between the
\* slashes, empty ones and "." left out
PathParts(s) ==
    LET slashes == {i \in 1..Len(s) : s[i] = "/"}
        first == IF slashes = {} THEN s ELSE SubSeq(s, 1, SetMin(slashes) - 1)
        rest == IF slashes = {} THEN <<>>
                ELSE PathParts(SubSeq(s, SetMin(slashes) + 1, Len(s)))
    IN  IF s = <<>> THEN <<>>
        ELSE IF first = <<>> \/ first = <<".">> THEN rest
        ELSE <<first>> \o rest

\* PurePosixPath(rel).match(pat) for a relative pattern: the components of
\* the pattern are matched against the last components of the path
PurePosixPath_match(rel, pat) ==
    LET parts == PathParts(rel)
        pat_parts == PathParts(pat)
    IN  /\ Len(pat_parts) <= Len(parts)
        /\ \A k \in 1..Len(pat_parts) :
              fnmatchcase(parts[Len(parts) - Len(pat_parts) + k], pat_parts[k])

RecursiveMd == <<"*", "*", "/", "*", ".", "m", "d">>
StarMd == <<"*", ".", "m", "d">>

\* the pattern test as it would be if a pattern without a separator were
\* tried on the base name of a file at any depth
PatternKeeps_at_any_depth(rel, pattern, nt) ==
    LET pattern_posix == replace(pattern, <<"\\">>, <<"/">>)
        basename_only == \A i \in 1..Len(pattern_posix) : pattern_posix[i] # "/"
    IN  IF pattern_posix = RecursiveMd
        THEN PurePosixPath_match(rel, RecursiveMd) \/ PurePosixPath_match(rel, StarMd)
        ELSE IF basename_only
        THEN fnmatch(PathName(rel), pattern_posix, nt)
        ELSE \/ PurePosixPath_match(rel, pattern_posix)
             \/ /\ HasAt(pattern_posix, 1, <<"*", "*", "/">>)
                /\ PurePosixPath_match(rel, SubSeq(pattern_posix, 4, Len(pattern_posix)))

\* the pattern test as it would be if "**/*.md" were matched by
\* rel_pp.match("**/*.md") alone
PatternKeeps_below_the_root(rel, pattern, nt) ==
    LET pattern_posix == replace(pattern, <<"\\">>, <<"/">>)
        basename_only == \A i \in 1..Len(pattern_posix) : pattern_posix[i] # "/"
    IN  IF pattern_posix = RecursiveMd
        THEN PurePosixPath_match(rel, RecursiveMd)
        ELSE IF basename_only
        THEN Len(PathParts(rel)) = 1 /\ fnmatch(PathName(rel), pattern_posix, nt)
        ELSE \/ PurePosixPath_match(rel, pattern_posix)
             \/ /\ HasAt(pattern_posix, 1, <<"*", "*", "/">>)
                /\ PurePosixPath_match(rel, SubSeq(pattern_posix, 4, Len(pattern_posix)))

\* collect_target_files: the test a file of the walk has to pass; rel is its
\* path relative to the target
PatternKeeps(rel, pattern, nt) ==
    LET pattern_posix == replace(pattern, <<"\\">>, <<"/">>)
        basename_only == \A i \in 1..Len(pattern_posix) : pattern_posix[i] # "/"
    IN  IF pattern_posix = RecursiveMd
        THEN PurePosixPath_match(rel, RecursiveMd) \/ PurePosixPath_match(rel, StarMd)
        ELSE IF basename_only
        THEN Len(PathParts(rel)) = 1 /\ fnmatch(PathName(rel), pattern_posix, nt)
        ELSE \/ PurePosixPath_match(rel, pattern_posix)
             \/ /\ HasAt(pattern_posix, 1, <<"*", "*", "/">>)
                /\ PurePosixPath_match(rel, SubSeq(pattern_posix, 4, Len(pattern_posix)))

\* dirpath / name
JoinPath(dirpath, name) ==
    IF dirpath = <<>> THEN name ELSE dirpath \o <<"/">> \o name

\* the directory a path is in, <<>> being the target
ParentOf(path) ==
    LET slashes == {i \in 1..Len(path) : path[i] = "/"}
    IN  IF slashes = {} THEN <<>> ELSE SubSeq(path, 1, SetMax(slashes) - 1)

\* the names os.walk lists for a directory, in the order the file system
\* enumerates them: order holds every name once
Listed(paths, dirpath, order) ==
    SelectSeq(order, LAMBDA name : JoinPath(dirpath, name) \in paths)

DEFAULT_EXCLUDE_DIRS == {<<".", "o", "b", "s", "i", "d", "i", "a", "n">>,
                         <<".", "t", "r", "a", "s", "h">>,
                         <<".", "g", "i", "t">>,
                         <<"n", "o", "d", "e", "_", "m", "o", "d", "u", "l", "e", "s">>}

\* the platforms of a run: os.name, and whether the file system takes names
\* that differ only in letter case for the same name
Linux == [os_name |-> "posix", fs_case_insensitive |-> FALSE]
MacOS == [os_name |-> "posix", fs_case_insensitive |-> TRUE]
Windows == [os_name |-> "nt", fs_case_insensitive |-> TRUE]
Platforms == {Linux, MacOS, Windows}

\* case_insensitive = os.name == "nt"
case_insensitive(pf) == pf.os_name = "nt"

\* the test as it would be if names were compared as they are written on
\* every platform
Excluded_as_written(dname, exclude_dirs, nt) == dname \in exclude_dirs

\* dname is pruned: key in exclude_norm
Excluded(dname, exclude_dirs, nt) ==
    IF nt THEN casefold(dname) \in {casefold(name) : name \in exclude_dirs}
    ELSE dname \in exclude_dirs

RECURSIVE Walk(_, _, _, _, _, _)
RECURSIVE WalkEach(_, _, _, _, _, _, _)

\* the body of the loop over os.walk(target) for dirpath and for everything
\* the walk reaches below it: [files, skipped_dirs] in the order of appending
Walk(tree, dirpath, pattern, exclude_dirs, nt, order) ==
    LET dirnames == Listed(tree.dirs, dirpath, order)
        filenames == Listed(tree.files, dirpath, order)
        pruned == SelectSeq(dirnames, LAMBDA d : Excluded(d, exclude_dirs, nt))
        kept_dirnames == SelectSeq(dirnames, LAMBDA d : ~Excluded(d, exclude_dirs, nt))
        here == SelectSeq(filenames,
                    LAMBDA f : PatternKeeps(JoinPath(dirpath, f), pattern, nt))
        below == WalkEach(tree, dirpath, kept_dirnames, pattern, exclude_dirs, nt, order)
    IN  [files |-> [i \in 1..Len(here) |-> JoinPath(dirpath, here[i])] \o below.files,
         skipped_dirs |-> [i \in 1..Len(pruned) |-> JoinPath(dirpath, pruned[i])]
                          \o below.skipped_dirs]

\* os.walk going down into the kept directories, one after the other
WalkEach(tree, dirpath, dirnames, pattern, exclude_dirs, nt, order) ==
    IF dirnames = <<>> THEN [files |-> <<>>, skipped_dirs |-> <<>>]
    ELSE LET first == Walk(tree, JoinPath(dirpath, Head(dirnames)), pattern,
                           exclude_dirs, nt, order)
             rest == WalkEach(tree, dirpath, Tail(dirnames), pattern,
                              exclude_dirs, nt, order)
         IN  [files |-> first.files \o rest.files,
              skipped_dirs |-> first.skipped_dirs \o rest.skipped_dirs]

\* x put into a sorted list, behind the elements that are not greater
InsertByStr(sorted, x) ==
    LET k == Cardinality({i \in 1..Len(sorted) : ~StrLess(x, sorted[i])})
    IN  SubSeq(sorted, 1, k) \o <<x>> \o SubSeq(sorted, k + 1, Len(sorted))

RECURSIVE SortedByStr(_)
\* list.sort(key=lambda path: str(path)): a stable sort by the path string
SortedByStr(list) ==
    IF list = <<>> THEN <<>>
    ELSE InsertByStr(SortedByStr(SubSeq(list, 1, Len(list) - 1)), list[Len(list)])

\* collect_target_files as it would be without the two sorts at its end
collect_target_files_unsorted(tree, pattern, exclude_dirs, nt, order) ==
    IF tree.is_file THEN [files |-> <<tree.target>>, skipped_dirs |-> <<>>]
    ELSE Walk(tree, <<>>, pattern, exclude_dirs, nt, order)

\* files.sort(key=...) and skipped_dirs.sort(key=...) on what the walk left
collect_sorted(walked) ==
    [files |-> SortedByStr(walked.files),
     skipped_dirs |-> SortedByStr(walked.skipped_dirs)]

\* collect_target_files as it would be if excluded directories were only
\* recorded, not taken out of dirnames
collect_target_files_unpruned(tree, pattern, exclude_dirs, nt, order) ==
    IF tree.is_file THEN [files |-> <<tree.target>>, skipped_dirs |-> <<>>]
    ELSE [files |-> SortedByStr(Walk(tree, <<>>, pattern, {}, nt, order).files),
          skipped_dirs |-> SortedByStr(Walk(tree, <<>>, pattern, exclude_dirs,
                                            nt, order).skipped_dirs)]

\* collect_target_files(target, pattern, exclude_dirs): [files, skipped_dirs].
\* tree is what is under the target: [is_file, target, files, dirs], files and
\* dirs being the paths below a directory target; nt is os.name == "nt";
\* order is the order in which the file system enumerates names.
collect_target_files(tree, pattern, exclude_dirs, nt, order) ==
    IF tree.is_file THEN [files |-> <<tree.target>>, skipped_dirs |-> <<>>]
    ELSE collect_sorted(Walk(tree, <<>>, pattern, exclude_dirs, nt, order))

----------------------------------------------------------------------------
(* cli.py: the run *)

\* exit_status as it would be if only the last record counted
exit_status_of_last(recs) ==
    IF recs # <<>> /\ recs[Len(recs)].status = "error" THEN 2 ELSE 0

\* return 2 if any(rec["status"] == "error" for rec in records) else 0
exit_status(recs) ==
    IF \E i \in 1..Len(recs) : recs[i].status = "error" THEN 2 ELSE 0

MaxFiles == 2

TargetPaths == {<<"0", "5", ".", "m", "d">>,
                <<"2", "0", "2", "5", "-", "0", "2", "/", "2", "0", "2", "5", "_", "1", "3",
                  "/", "3", "0", ".", "m", "d">>,
                <<"2", "0", "2", "5", "_", "1", "2", "/", "0", "3", "_", "n", ".", "m", "d">>,
                <<"n", ".", "m", "d">>}

FileBytes == {<<BOM>> \o Dashes \o <<LF>> \o UuidLineA \o <<LF>> \o Dashes \o <<LF, "t">>,
              Dashes \o <<LF, "t", LF>> \o Dashes \o <<LF>>,
              Dashes \o <<LF, "t">>,
              <<XFF>>}

\* a file in a directory the default exclusions prune, which every target of
\* a run holds; the run never reads it
ExcludedPaths == {<<".", "g", "i", "t", "/", "0", "5", ".", "m", "d">>}
ExcludedBytes == <<"t">>

\* the names under the target of a run, in the order the file system of the
\* run enumerates them
RunOrder == <<<<"n", ".", "m", "d">>,
              <<"2", "0", "2", "5", "_", "1", "3">>,
              <<"2", "0", "2", "5", "_", "1", "2">>,
              <<"0", "5", ".", "m", "d">>,
              <<".", "g", "i", "t">>,
              <<"3", "0", ".", "m", "d">>,
              <<"2", "0", "2", "5", "-", "0", "2">>,
              <<"0", "3", "_", "n", ".", "m", "d">>>>

FileDateToken == FileDateOpen \o <<"}">>
FileDateYearMonth == FileDateOpen \o <<":", "%", "Y", "/", "%", "m", "}">>

PayloadFiles == {<<"t", LF>>,
                 <<"d", ":", SP>> \o FileDateToken \o <<LF>>,
                 Dashes \o <<LF, "d", ":", SP>> \o FileDateYearMonth \o <<LF>>
                    \o UuidLineToken \o <<LF>> \o Dashes \o <<LF>>,
                 Dashes \o <<LF, "t", LF>>,
                 <<BOM, BOM, BOM>> \o Dashes \o <<LF, "t", LF>>,
                 <<XFF>>}

YearMonthArgs == {[some |-> FALSE, value |-> <<>>],
                  [some |-> TRUE, value |-> <<"2", "0", "2", "4", "-", "0", "2">>],
                  [some |-> TRUE, value |-> <<"2", "0", "2", "4", "-", "0", "6">>],
                  [some |-> TRUE, value |-> <<"2", "0", "2", "4", "-", "1", "3">>]}

\* the --year-month arguments a run with the payload is started with: main
\* looks at the argument only when the payload has a file date token, so a
\* run with another payload is started without one or with a valid one
YearMonthArgsFor(payload_bytes) ==
    IF Contains(payload_bytes, FileDateOpen) THEN YearMonthArgs
    ELSE {a \in YearMonthArgs :
             ~a.some \/ a.value = <<"2", "0", "2", "4", "-", "0", "2">>}

\* what the operating system does when a file is read and written; a dry
\* run writes nothing, so a failing write is drawn in apply mode only
IoOutcomes(apply_flag) ==
    {"ok", "read_failed"} \cup (IF apply_flag THEN {"write_failed"} ELSE {})

TransformIdle ==
    /\ text = <<>>
    /\ payload_text = <<>>
    /\ preserve_uuid = TRUE
    /\ result = None
    /\ rerun = None
    /\ tpc = "idle"

\* what the target directory of a run holds: the files of fs and the
\* directories they are in
RunTree(fs) ==
    [is_file |-> FALSE, target |-> <<>>, files |-> DOMAIN fs,
     dirs |-> UNION {{SubSeq(path, 1, i - 1) :
                         i \in {k \in 1..Len(path) : path[k] = "/"}} :
                     path \in DOMAIN fs}]

\* found while collect_target_files has not been called
NotCalled == [files |-> <<>>, skipped_dirs |-> <<>>]

DiscoveryIdle ==
    /\ target_tree = [is_file |-> FALSE, target |-> <<>>, files |-> {}, dirs |-> {}]
    /\ glob = <<>>
    /\ exclude_set = {}
    /\ platform = Linux
    /\ walk_order = <<>>
    /\ found = NotCalled
    /\ walk_order2 = <<>>
    /\ found2 = NotCalled
    /\ dpc = "idle"

\* normalize_payload_text has not been called
NotNormalized == [raised |-> FALSE, value |-> <<>>]

NormalizeIdle ==
    /\ raw_payload = <<>>
    /\ normalized = NotNormalized
    /\ renormalized = NotNormalized
    /\ npc = "idle"

GenerateIdle ==
    /\ clock = <<>>
    /\ rand_a = <<>>
    /\ rand_b = <<>>
    /\ generated = <<>>
    /\ gpc = "idle"

RunIdle ==
    /\ fsys = <<>>
    /\ fsys0 = <<>>
    /\ payload_file = <<>>
    /\ year_month_arg = [some |-> FALSE, value |-> <<>>]
    /\ apply = FALSE
    /\ pc = "idle"
    /\ run_payload = <<>>
    /\ files = <<>>
    /\ needs_file_date = FALSE
    /\ fallback_year_month = NoYearMonth
    /\ next_file = 1
    /\ io_log = <<>>
    /\ records = <<>>
    /\ emitted = <<>>
    /\ usage_message = ""
    /\ exit_code = -1

Init ==
    /\ TransformIdle
    /\ DiscoveryIdle
    /\ NormalizeIdle
    /\ GenerateIdle
    /\ \E S \in {T \in SUBSET TargetPaths : Cardinality(T) <= MaxFiles} :
          \E f \in [S -> FileBytes] :
              fsys = [path \in S \cup ExcludedPaths |->
                         IF path \in S THEN f[path] ELSE ExcludedBytes]
    /\ fsys0 = fsys
    /\ payload_file \in PayloadFiles
    /\ year_month_arg \in YearMonthArgsFor(payload_file)
    /\ apply \in BOOLEAN
    /\ pc = "start"
    /\ run_payload = <<>>
    /\ files = <<>>
    /\ needs_file_date = FALSE
    /\ fallback_year_month = NoYearMonth
    /\ next_file = 1
    /\ io_log = <<>>
    /\ records = <<>>
    /\ emitted = <<>>
    /\ usage_message = ""
    /\ exit_code = -1

\* main's two try blocks on the payload as they would be if a payload that
\* normalize_payload_text rejects were used as it was read
load_payload_unnormalised(payload_bytes) ==
    [failed |-> decode_utf8_sig(payload_bytes).raised,
     message |-> "error: failed to read payload",
     value |-> IF normalize_payload_text(decode_utf8_sig(payload_bytes).value).raised
               THEN decode_utf8_sig(payload_bytes).value
               ELSE normalize_payload_text(decode_utf8_sig(payload_bytes).value).value]

\* main's two try blocks on the payload: failed where main returns 1, value
\* the normalised payload text otherwise
load_payload(payload_bytes) ==
    [failed |-> \/ decode_utf8_sig(payload_bytes).raised
                \/ normalize_payload_text(decode_utf8_sig(payload_bytes).value).raised,
     message |-> IF decode_utf8_sig(payload_bytes).raised
                 THEN "error: failed to read payload"
                 ELSE "error: invalid payload",
     value |-> normalize_payload_text(decode_utf8_sig(payload_bytes).value).value]

\* main: the payload file is read, decoded and normalised
ReadPayload ==
    /\ pc = "start"
    /\ IF load_payload(payload_file).failed
       THEN /\ pc' = "usage_error"
            /\ exit_code' = 1
            /\ usage_message' = load_payload(payload_file).message
            /\ UNCHANGED run_payload
       ELSE /\ pc' = "collect"
            /\ run_payload' = load_payload(payload_file).value
            /\ UNCHANGED <<exit_code, usage_message>>
    /\ UNCHANGED <<tvars, dvars, nvars, gvars, fsys, fsys0, payload_file, year_month_arg,
                   apply, files, needs_file_date, fallback_year_month,
                   next_file, io_log, records, emitted>>

\* main: the files of the target are enumerated
Collect ==
    /\ pc = "collect"
    /\ target_tree' = RunTree(fsys)
    /\ glob' = RecursiveMd
    /\ exclude_set' = DEFAULT_EXCLUDE_DIRS
    /\ platform' = Linux
    /\ walk_order' = RunOrder
    /\ found' = collect_target_files(RunTree(fsys), RecursiveMd,
                                     DEFAULT_EXCLUDE_DIRS,
                                     case_insensitive(Linux), RunOrder)
    /\ dpc' = "returned"
    /\ files' = found'.files
    /\ pc' = "date_check"
    /\ UNCHANGED <<tvars, nvars, gvars, walk_order2, found2, fsys, fsys0, payload_file,
                   year_month_arg, apply, run_payload, needs_file_date,
                   fallback_year_month, next_file, io_log, records, emitted,
                   usage_message, exit_code>>

\* the test as it would be if main did not look for a year and month
missing_year_month_unchecked(needs, fallback, file_list) == FALSE

\* main: the payload needs a date, no fallback was given and
\* extract_year_month_from_path finds a year and month in no path
missing_year_month(needs, fallback, file_list) ==
    /\ needs
    /\ ~fallback.some
    /\ ~\E i \in 1..Len(file_list) :
           extract_year_month_from_path(file_list[i]).some

InvalidYearMonthMessage == "error: invalid --year-month; expected YYYY-MM"
MissingYearMonthMessage ==
    "error: file_date token present but year-month not found in path; provide --year-month YYYY-MM"

\* main: a payload with a file date token needs a year and month
DateCheck ==
    /\ pc = "date_check"
    /\ LET needs == Contains(run_payload, FileDateOpen)
           parsed == parse_year_month_flag(year_month_arg.value)
           fallback == IF needs /\ year_month_arg.some
                       THEN [some |-> TRUE, year |-> parsed.year,
                             month |-> parsed.month]
                       ELSE NoYearMonth
       IN  /\ needs_file_date' = needs
           /\ IF needs /\ year_month_arg.some /\ parsed.raised
              THEN /\ pc' = "usage_error"
                   /\ exit_code' = 1
                   /\ usage_message' = InvalidYearMonthMessage
                   /\ UNCHANGED fallback_year_month
              ELSE IF missing_year_month(needs, fallback, files)
              THEN /\ pc' = "usage_error"
                   /\ exit_code' = 1
                   /\ usage_message' = MissingYearMonthMessage
                   /\ UNCHANGED fallback_year_month
              ELSE /\ pc' = "skipped"
                   /\ fallback_year_month' = fallback
                   /\ UNCHANGED <<exit_code, usage_message>>
    /\ UNCHANGED <<tvars, dvars, nvars, gvars, fsys, fsys0, payload_file, year_month_arg,
                   apply, run_payload, files, next_file, io_log, records,
                   emitted>>

\* the JSONL record main prints for a skipped directory
SkipRecord(dir_path) ==
    [path |-> dir_path, status |-> "skipped", had_frontmatter |-> FALSE,
     preserved_uuid |-> FALSE, generated_uuid |-> FALSE,
     reason |-> "excluded_dir", is_dir |-> TRUE]

\* main: a record is printed for every skipped directory
EmitSkipped ==
    /\ pc = "skipped"
    /\ emitted' = [i \in 1..Len(found.skipped_dirs) |->
                      SkipRecord(found.skipped_dirs[i])]
    /\ pc' = "loop"
    /\ UNCHANGED <<tvars, dvars, nvars, gvars, fsys, fsys0, payload_file, year_month_arg,
                   apply, run_payload, files, needs_file_date,
                   fallback_year_month, next_file, io_log, records,
                   usage_message, exit_code>>

\* main's payload_text as it would be after a turn of the loop if the file
\* date were substituted in it and not in a copy
payload_text_substituted(payload, call) ==
    IF call.made THEN call.payload ELSE payload

\* main's payload_text after a turn of the loop: process_file binds its own
\* per_file_payload and main assigns nothing to payload_text
payload_text_after(payload, call) == payload

\* main: the turn of the loop in which process_file handed back r
ProcessFileReturned(r) ==
    IF r.raised
    THEN /\ pc' = "crashed"
         /\ exit_code' = 1
         /\ UNCHANGED <<tvars, fsys, records, next_file, run_payload>>
    ELSE /\ records' = Append(records, r.record)
         /\ fsys' = r.fsys
         /\ next_file' = next_file + 1
         /\ run_payload' = payload_text_after(run_payload, r.call)
         /\ UNCHANGED <<pc, exit_code, rerun>>
         /\ IF r.call.made
            THEN /\ text' = r.call.text
                 /\ payload_text' = r.call.payload
                 /\ preserve_uuid' = TRUE
                 /\ result' = r.call.result
                 /\ tpc' = "returned"
            ELSE UNCHANGED <<text, payload_text, preserve_uuid, result, tpc>>

\* main: one turn of the loop over files
ProcessFile ==
    /\ pc = "loop"
    /\ next_file <= Len(files)
    /\ \E io \in IoOutcomes(apply), gen \in GeneratedIds :
          /\ io_log' = Append(io_log, io)
          /\ ProcessFileReturned(
                process_file(fsys, files[next_file], run_payload, apply,
                             needs_file_date, fallback_year_month, io, gen))
    /\ UNCHANGED <<dvars, nvars, gvars, fsys0, payload_file, year_month_arg, apply, files,
                   needs_file_date, fallback_year_month, emitted,
                   usage_message>>

\* main: the loop is over and the exit status is returned
Finish ==
    /\ pc = "loop"
    /\ next_file > Len(files)
    /\ exit_code' = exit_status(records)
    /\ pc' = "done"
    /\ UNCHANGED <<tvars, dvars, nvars, gvars, fsys, fsys0, payload_file, year_month_arg,
                   apply, run_payload, files, needs_file_date,
                   fallback_year_month, next_file, io_log, records, emitted,
                   usage_message>>

Next ==
    ReadPayload \/ Collect \/ DateCheck \/ EmitSkipped \/ ProcessFile \/ Finish

Spec == Init /\ [][Next]_vars

----------------------------------------------------------------------------
(* The transform harness: one call of transform_markdown on an arbitrary
   document and payload, then, as a second run with the same payload does,
   a second identifier-preserving call on the text the first call returned. *)

InitT ==
    /\ RunIdle
    /\ DiscoveryIdle
    /\ NormalizeIdle
    /\ GenerateIdle
    /\ text \in Documents
    /\ payload_text \in Payloads
    /\ preserve_uuid \in BOOLEAN
    /\ result = None
    /\ rerun = None
    /\ tpc = "call"

InitNL ==
    /\ RunIdle
    /\ DiscoveryIdle
    /\ NormalizeIdle
    /\ GenerateIdle
    /\ text \in StyledDocuments
    /\ payload_text \in StyledPayloads
    /\ preserve_uuid \in BOOLEAN
    /\ result = None
    /\ rerun = None
    /\ tpc = "call"

Transform ==
    /\ tpc = "call"
    /\ \E gen \in GeneratedIds :
          result' = transform_markdown(text, payload_text, preserve_uuid, gen)
    /\ tpc' = "returned"
    /\ UNCHANGED <<text, payload_text, preserve_uuid, rerun, rvars, dvars,
                   nvars, gvars>>

TransformAgain ==
    /\ tpc = "returned"
    /\ preserve_uuid
    /\ ~result.raised
    /\ ~result.info.error
    /\ \E gen \in GeneratedIds :
          rerun' = transform_markdown(result.text, payload_text, TRUE, gen)
    /\ tpc' = "again"
    /\ UNCHANGED <<text, payload_text, preserve_uuid, result, rvars, dvars,
                   nvars, gvars>>

NextT == Transform \/ TransformAgain

SpecT == InitT /\ [][NextT]_vars

SpecNL == InitNL /\ [][NextT]_vars

----------------------------------------------------------------------------
(* The discovery harness: one call of collect_target_files on an arbitrary
   tree, pattern, exclusion set and platform, then a second call on the same
   tree while the file system enumerates names in an order of its own. *)

MaxTreeFiles == 2

\* the directories a tree may hold, and the names of its files
DirPaths == {<<".", "g", "i", "t">>,
             <<"s">>,
             <<"s", "/", ".", "G", "i", "t">>,
             <<"s", "/", "t">>}
FileNames == {<<"a", ".", "m", "d">>, <<"b", ".", "M", "D">>}

\* sets of directories that hold the parent of each of their directories
DirSets ==
    {D \in SUBSET DirPaths : \A d \in D : ParentOf(d) = <<>> \/ ParentOf(d) \in D}

\* the places for a file in the directories D and in the target itself
FileSlots(D) == {JoinPath(d, n) : d \in D \cup {<<>>}, n \in FileNames}

Trees ==
    UNION {{[is_file |-> FALSE, target |-> <<>>, files |-> F, dirs |-> D] :
               F \in {G \in SUBSET FileSlots(D) : Cardinality(G) <= MaxTreeFiles}} :
           D \in DirSets}
    \cup {[is_file |-> TRUE, target |-> n, files |-> {}, dirs |-> {}] :
             n \in FileNames}

Patterns == {RecursiveMd,
             StarMd,
             <<"a", ".", "*">>,
             <<"s", "/", "*", ".", "m", "d">>,
             <<"s", "\\", "*", ".", "m", "d">>,
             <<"*", "*", "/", "a", ".", "*">>}

ExcludeSets == {{}, DEFAULT_EXCLUDE_DIRS \cup {<<"t">>}}

\* orders in which a file system may enumerate the names of the trees
WalkOrders ==
    {<<<<".", "G", "i", "t">>, <<".", "g", "i", "t">>, <<"a", ".", "m", "d">>,
       <<"b", ".", "M", "D">>, <<"s">>, <<"t">>>>,
     <<<<"t">>, <<"s">>, <<"b", ".", "M", "D">>, <<"a", ".", "m", "d">>,
       <<".", "g", "i", "t">>, <<".", "G", "i", "t">>>>,
     <<<<"b", ".", "M", "D">>, <<"s">>, <<".", "g", "i", "t">>, <<"t">>,
       <<"a", ".", "m", "d">>, <<".", "G", "i", "t">>>>}

InitD ==
    /\ TransformIdle
    /\ RunIdle
    /\ NormalizeIdle
    /\ GenerateIdle
    /\ target_tree \in Trees
    /\ glob \in Patterns
    /\ exclude_set \in ExcludeSets
    /\ platform \in Platforms
    /\ walk_order \in WalkOrders
    /\ found = NotCalled
    /\ walk_order2 = <<>>
    /\ found2 = NotCalled
    /\ dpc = "call"

\* collect_target_files is called
Discover ==
    /\ dpc = "call"
    /\ found' = collect_target_files(target_tree, glob, exclude_set,
                                     case_insensitive(platform), walk_order)
    /\ dpc' = "returned"
    /\ UNCHANGED <<tvars, rvars, nvars, gvars, target_tree, glob, exclude_set, platform,
                   walk_order, walk_order2, found2>>

\* it is called once more on the same tree, enumerated in another order
DiscoverAgain ==
    /\ dpc = "returned"
    /\ \E order \in WalkOrders \ {walk_order} :
          /\ walk_order2' = order
          /\ found2' = collect_target_files(target_tree, glob, exclude_set,
                                            case_insensitive(platform), order)
    /\ dpc' = "repeated"
    /\ UNCHANGED <<tvars, rvars, nvars, gvars, target_tree, glob, exclude_set, platform,
                   walk_order, found>>

NextD == Discover \/ DiscoverAgain

SpecD == InitD /\ [][NextD]_vars

----------------------------------------------------------------------------
(* The normalisation harness: normalize_payload_text on an arbitrary payload
   text, as main calls it on the payload file's text, and then once more on
   the text it returned, as transform_markdown does with the payload it is
   handed. *)

MaxPayloadPieces == 4

\* A payload text is a run of at most MaxPayloadPieces of these pieces; the
\* pieces without a line terminator join the piece after them into one line.
PayloadPieces == {<<BOM>>,
                  Dashes \o <<LF>>,
                  Dashes \o <<CR, LF>>,
                  Dashes \o <<FF>>,
                  Dashes,
                  Dots \o <<LF>>,
                  <<"t", LF>>,
                  <<"t">>}

RawPayloads == {Concat(ps) : ps \in PieceSeqs(PayloadPieces, MaxPayloadPieces)}

InitN ==
    /\ TransformIdle
    /\ RunIdle
    /\ DiscoveryIdle
    /\ GenerateIdle
    /\ raw_payload \in RawPayloads
    /\ normalized = NotNormalized
    /\ renormalized = NotNormalized
    /\ npc = "call"

\* main: payload_text = normalize_payload_text(payload_text)
Normalize ==
    /\ npc = "call"
    /\ normalized' = normalize_payload_text(raw_payload)
    /\ npc' = "returned"
    /\ UNCHANGED <<tvars, rvars, dvars, gvars, raw_payload, renormalized>>

\* transform_markdown: payload = normalize_payload_text(payload_text), on the
\* text main normalised
NormalizeAgain ==
    /\ npc = "returned"
    /\ ~normalized.raised
    /\ renormalized' = normalize_payload_text(normalized.value)
    /\ npc' = "again"
    /\ UNCHANGED <<tvars, rvars, dvars, gvars, raw_payload, normalized>>

NextN == Normalize \/ NormalizeAgain

SpecN == InitN /\ [][NextN]_vars

----------------------------------------------------------------------------
(* The identifier harness: one call of generate_uuidv7 with an arbitrary
   clock and arbitrary random draws. *)

\* int(time.time() * 1000): the epoch, a day in 2023, the last millisecond
\* that fits 48 bits, and two later ones that do not
Clocks == {<<0>>,
           <<1, 8, 11, 12, 15, 14, 5, 6, 8, 0, 0>>,
           <<15, 15, 15, 15, 15, 15, 15, 15, 15, 15, 15, 15>>,
           <<1, 0, 0, 0, 0, 0, 0, 0, 0, 1, 3, 8, 8>>,
           <<10, 15, 15, 15, 15, 15, 15, 15, 15, 15, 15, 15, 15>>}

\* secrets.randbits(12): 0 .. 2^12 - 1
RandA == {<<0>>, <<1>>, <<3, 2, 7>>, <<8, 0, 0>>, <<15, 15, 15>>}

\* secrets.randbits(62): 0 .. 2^62 - 1
RandB == {<<0>>,
          <<15, 15, 15, 15, 15, 15, 15, 15, 15, 15, 15, 15, 15, 15, 15>>,
          <<1, 0, 0, 0, 0, 0, 0, 0, 0, 0, 0, 0, 0, 0, 0, 0>>,
          <<2, 14, 1, 0, 4, 7, 2, 11, 8, 6, 0, 2, 9, 13, 5, 12>>,
          <<3, 0, 0, 0, 0, 0, 0, 0, 0, 0, 0, 0, 0, 0, 0, 1>>,
          <<3, 15, 15, 15, 15, 15, 15, 15, 15, 15, 15, 15, 15, 15, 15, 15>>}

InitG ==
    /\ TransformIdle
    /\ RunIdle
    /\ DiscoveryIdle
    /\ NormalizeIdle
    /\ clock \in Clocks
    /\ rand_a \in RandA
    /\ rand_b \in RandB
    /\ generated = <<>>
    /\ gpc = "call"

Generate ==
    /\ gpc = "call"
    /\ generated' = generate_uuidv7(clock, rand_a, rand_b)
    /\ gpc' = "returned"
    /\ UNCHANGED <<tvars, rvars, dvars, nvars, clock, rand_a, rand_b>>

NextG == Generate

SpecG == InitG /\ [][NextG]_vars

----------------------------------------------------------------------------
(* What the claims say of a text, read line by line *)

\* the lines of t without their terminators
LineContents(t) ==
    LET lines == splitlines(t)
    IN  [i \in 1..Len(lines) |-> rstrip_crlf(lines[i])]

\* position of the colon of a line "uuid<blanks>:<value>", 0 for any other line
UuidColon(c) ==
    IF ~HasAt(c, 1, UuidKey) THEN 0
    ELSE LET stops == {q \in 5..(Len(c) + 1) : q = Len(c) + 1 \/ c[q] \notin {SP, TAB}}
             q0 == SetMin(stops)
         IN  IF q0 <= Len(c) /\ c[q0] = ":" THEN q0 ELSE 0

IsUuidLine(c) == UuidColon(c) # 0

UuidLineValue(c) == strip(SubSeq(c, UuidColon(c) + 1, Len(c)))

\* a uuid key under indentation
IsIndentedUuidLine(c) ==
    LET stops == {q \in 1..(Len(c) + 1) : q = Len(c) + 1 \/ c[q] \notin {SP, TAB}}
        q0 == SetMin(stops)
    IN  q0 > 1 /\ IsUuidLine(SubSeq(c, q0, Len(c)))

\* index of the first column-zero uuid line of t, 0 if it has none
FirstUuidLine(t) ==
    LET cs == LineContents(t)
        hits == {i \in 1..Len(cs) : IsUuidLine(cs[i])}
    IN  IF hits = {} THEN 0 ELSE SetMin(hits)

HasUuidLine(t) == FirstUuidLine(t) # 0

FirstUuidValue(t) == UuidLineValue(LineContents(t)[FirstUuidLine(t)])

IsPlaceholderValue(v) ==
    \/ v = UuidToken
    \/ v = <<"\"">> \o UuidToken \o <<"\"">>
    \/ v = <<"'">> \o UuidToken \o <<"'">>

\* the document of the call, as the claims see it
DocText == _strip_bom(text)
DocParsed == _parse_frontmatter(DocText)
DocWellFormed == DocParsed.had /\ DocParsed.error = ""
DocHasUuid == DocWellFormed /\ HasUuidLine(DocParsed.frontmatter)
Returned == tpc # "call" /\ ~result.raised
Succeeded == Returned /\ ~result.info.error
OutParsed == _parse_frontmatter(result.text)

----------------------------------------------------------------------------
(* Claims about transform_markdown *)

\* C1: a second identifier-preserving run over the output of a successful
\* identifier-preserving run, with the same payload, returns the same text.
C1_Idempotent ==
    (tpc = "again" /\ preserve_uuid)
        => (~rerun.raised /\ ~rerun.info.error /\ rerun.text = result.text)

\* C2: when the front matter of the document has a column-zero uuid line with
\* value V, an identifier-preserving call returns a text whose front matter has
\* V as the value of its column-zero uuid line, marked preserved, not generated.
C2_ExistingUuidWins ==
    (Succeeded /\ preserve_uuid /\ DocHasUuid)
        => /\ result.info.preserved_uuid
           /\ ~result.info.generated_uuid
           /\ OutParsed.had /\ OutParsed.error = ""
           /\ HasUuidLine(OutParsed.frontmatter)
           /\ FirstUuidValue(OutParsed.frontmatter) = FirstUuidValue(DocParsed.frontmatter)

\* C3: an identifier is generated only if the document has no column-zero uuid
\* line and the value of the payload's column-zero uuid line is the placeholder.
C3_GeneratesOnlyForPlaceholder ==
    (Returned /\ result.info.generated_uuid)
        => /\ ~DocHasUuid
           /\ LET p == normalize_payload_text(payload_text).value
              IN  HasUuidLine(p) /\ IsPlaceholderValue(FirstUuidValue(p))

\* C4: an indented uuid line is never the identifier: without a column-zero
\* uuid line in its front matter the document has no identifier to preserve,
\* without one in the payload nothing is generated, and every indented uuid
\* line of the payload is a line of the output.
C4_ColumnZeroOnly ==
    Succeeded
        => LET p == normalize_payload_text(payload_text).value
               plines == LineContents(p)
               olines == LineContents(result.text)
           IN  /\ ~DocHasUuid => ~result.info.preserved_uuid
               /\ ~HasUuidLine(p) => ~result.info.generated_uuid
               /\ \A i \in 1..Len(plines) :
                     IsIndentedUuidLine(plines[i]) => \E j \in 1..Len(olines) : olines[j] = plines[i]

\* the first line of the text is "---" and no later line is "---" or "..."
Unterminated(t) ==
    LET cs == LineContents(t)
    IN  /\ Len(cs) >= 1
        /\ cs[1] = Dashes
        /\ \A i \in 2..Len(cs) : cs[i] \notin {Dashes, Dots}

\* C5: a document that opens a front-matter block and never closes it comes
\* back unchanged, with the error flag set and a reason.
C5_MalformedUnchanged ==
    (tpc # "call" /\ Unterminated(text))
        => /\ ~result.raised
           /\ result.text = text
           /\ result.info.error
           /\ result.info.reason # ""

C5_Witness ==
    /\ tpc = "returned"
    /\ Unterminated(text)
    /\ Len(LineContents(text)) >= 2
    /\ HasUuidLine(text)
    /\ payload_text # <<>>
    /\ result.info.error

\* every line ending of t is CRLF, and t has one
CrlfThroughout(t) ==
    /\ Contains(t, <<CR, LF>>)
    /\ \A i \in 1..Len(t) : t[i] = LF => (i > 1 /\ t[i - 1] = CR)
    /\ \A i \in 1..Len(t) : t[i] = CR => (i < Len(t) /\ t[i + 1] = LF)

NoBareNewline(t) ==
    /\ \A i \in 1..Len(t) : t[i] = LF => (i > 1 /\ t[i - 1] = CR)
    /\ \A i \in 1..Len(t) : t[i] = CR => (i < Len(t) /\ t[i + 1] = LF)

NoCr(t) == \A i \in 1..Len(t) : t[i] # CR

\* C6: the output of a successful call on a document whose line endings are
\* all CRLF has only CRLF line endings, and the output of a successful call on
\* a document without any CR has no CR, whatever line endings the payload uses.
C6_NewlineFidelity ==
    Succeeded
        => /\ CrlfThroughout(text) => NoBareNewline(result.text)
           /\ NoCr(text) => NoCr(result.text)

C6_Witness ==
    /\ tpc = "returned"
    /\ Succeeded
    /\ CrlfThroughout(text)
    /\ DocHasUuid
    /\ Contains(payload_text, <<"t", LF>>)
    /\ result.info.preserved_uuid

\* the first line of the document is not "---"
NoOpeningLine(t) ==
    LET cs == LineContents(t)
    IN  Len(cs) = 0 \/ cs[1] # Dashes

\* b is a front-matter block: it opens and closes with a "---" line
IsBlock(b, nl) ==
    /\ Len(b) >= 2 * Len(Dashes \o nl)
    /\ HasAt(b, 1, Dashes \o nl)
    /\ HasAt(b, Len(b) - Len(Dashes \o nl) + 1, Dashes \o nl)

\* C7: a document whose first line is not "---" has no front matter: the
\* output is a new front-matter block followed by the whole document, also
\* when a "---" or "..." line comes later in it.
C7_OnlyAtStart ==
    (Returned /\ NoOpeningLine(DocText))
        => /\ ~result.info.had_frontmatter
           /\ ~result.info.error
           /\ Len(result.text) >= Len(DocText)
           /\ LET n == Len(result.text) - Len(DocText)
              IN  /\ SubSeq(result.text, n + 1, Len(result.text)) = DocText
                  /\ \E nl \in {<<LF>>, <<CR, LF>>} : IsBlock(SubSeq(result.text, 1, n), nl)

C7_Witness ==
    /\ tpc = "returned"
    /\ Returned
    /\ NoOpeningLine(DocText)
    /\ \E i \in 2..Len(LineContents(DocText)) : LineContents(DocText)[i] \in {Dashes, Dots}
    /\ payload_text # <<>>

----------------------------------------------------------------------------
(* What the claims say of a run *)

\* the positions of main's records that are about path p
RecordsOf(p) == {i \in 1..Len(records) : records[i].path = p}

AnyError == \E i \in 1..Len(records) : records[i].status = "error"
AnyChanged == \E i \in 1..Len(records) : records[i].status = "changed"

\* the run went through its loop and returned
Completed == pc = "done"

\* C8: at every point of a run, a file whose bytes differ from its original
\* bytes is a file of an apply-mode run whose record says changed; in a dry
\* run no file differs, and a file whose record says error or unchanged has
\* its original bytes.
C8_WriteGuard ==
    /\ DOMAIN fsys = DOMAIN fsys0
    /\ \A p \in DOMAIN fsys0 :
          /\ fsys[p] # fsys0[p]
                => apply /\ \E i \in RecordsOf(p) : records[i].status = "changed"
          /\ ~apply => fsys[p] = fsys0[p]
          /\ (\E i \in RecordsOf(p) : records[i].status \in {"error", "unchanged"})
                => fsys[p] = fsys0[p]

C8_Witness ==
    /\ Completed
    /\ apply
    /\ \E p \in DOMAIN fsys0 : fsys[p] # fsys0[p]
    /\ \E i \in 1..Len(records) :
          /\ records[i].status = "error"
          /\ records[i].reason = NoClosingMarker
          /\ fsys[records[i].path] = fsys0[records[i].path]

\* the ways the i-th file of the list can fail, read off the run's inputs
ReadFails(i) == io_log[i] = "read_failed"
DecodeFails(i) == decode_utf8_sig(fsys0[files[i]]).raised
Malformed(i) ==
    /\ ~DecodeFails(i)
    /\ Unterminated(_strip_bom(decode_utf8_sig(fsys0[files[i]]).value))
DateFails(i) ==
    process_file_date(files[i], run_payload, needs_file_date,
                      fallback_year_month).error # ""
TransformFails(i) ==
    /\ ~DateFails(i)
    /\ normalize_payload_text(
           process_file_date(files[i], run_payload, needs_file_date,
                             fallback_year_month).payload).raised
WriteFails(i) ==
    /\ io_log[i] = "write_failed"
    /\ apply
    /\ records[i].status # "unchanged"
\* DateFails(i) \/ TransformFails(i), dated being the file date of files[i]
DatedFails(dated) ==
    dated.error # "" \/ normalize_payload_text(dated.payload).raised
Fails(i) ==
    \/ ReadFails(i) \/ DecodeFails(i) \/ WriteFails(i) \/ Malformed(i)
    \/ DatedFails(process_file_date(files[i], run_payload, needs_file_date,
                                    fallback_year_month))

C10_TriState ==
    Completed
        => /\ AnyError => exit_code = 2
           /\ (~AnyError /\ ~AnyChanged) => exit_code = 0
           /\ (~AnyError /\ AnyChanged) => exit_code \notin {0, 2}

\* C10: a completed run returns 2 when a file has an error record and 0 when
\* none has, whether or not a file changed.
C10_ExitStatus ==
    Completed => exit_code = (IF AnyError THEN 2 ELSE 0)

C10_Witness ==
    /\ Completed
    /\ ~AnyError
    /\ AnyChanged
    /\ exit_code = 0
    /\ \E p \in DOMAIN fsys0 : fsys[p] # fsys0[p]


----------------------------------------------------------------------------
(* Claims about the order of a run *)

\* the payload file holds a text that opens a block and never closes it
PayloadUnclosed ==
    /\ ~decode_utf8_sig(payload_file).raised
    /\ Unterminated(_strip_bom(decode_utf8_sig(payload_file).value))

\* no file of the target has been read or written, and nothing was printed
NothingTouched ==
    /\ io_log = <<>>
    /\ fsys = fsys0
    /\ records = <<>>
    /\ emitted = <<>>

\* C11: a run whose payload starts with a "---" line and has no closing
\* "---" or "..." line ends at its first step with the usage-error status 1:
\* collect_target_files is never called, no file of the target is read or
\* written, and no record is made for a file or for a skipped directory.
C11_PayloadAbortsFirst ==
    PayloadUnclosed =>
        /\ pc \in {"start", "usage_error"}
        /\ pc = "usage_error" =>
              exit_code = 1 /\ usage_message = "error: invalid payload"
        /\ pc = "start" => exit_code = -1
        /\ dpc = "idle"
        /\ files = <<>>
        /\ NothingTouched

\* such a run has ended, over a target with a file to process and a
\* directory to skip
C11_Witness ==
    /\ PayloadUnclosed
    /\ pc = "usage_error"
    /\ exit_code = 1
    /\ ExcludedPaths \subseteq DOMAIN fsys
    /\ DOMAIN fsys \cap TargetPaths # {}
    /\ dpc = "idle"


----------------------------------------------------------------------------
(* Claims about discovery *)

\* collect_target_files has returned
Called == dpc \in {"returned", "repeated"}

TargetIsDir == ~target_tree.is_file

\* a and b are the same name to the comparison of the platform of the call
SameName(a, b) ==
    IF platform.os_name = "nt" THEN casefold(a) = casefold(b) ELSE a = b

InExclusionSet(dname) == \E e \in exclude_set : SameName(dname, e)

\* the directories a path lies beneath
Ancestors(path) ==
    {SubSeq(path, 1, i - 1) : i \in {k \in 1..Len(path) : path[k] = "/"}}

Beneath(path, d) == d \in Ancestors(path)

\* the walk comes to d: no directory above it is pruned
ReachedByWalk(d) == \A a \in Ancestors(d) : ~InExclusionSet(PathName(a))

Pruned(d) == ReachedByWalk(d) /\ InExclusionSet(PathName(d))

Count(list, x) == Cardinality({i \in 1..Len(list) : list[i] = x})

\* C12: for a directory target, every directory the walk reaches whose name
\* is in the exclusion set is in the pruned list exactly once, the pruned list
\* holds nothing else, and no returned file lies beneath a pruned directory.
C12_ExclusionPruning ==
    (Called /\ TargetIsDir) =>
        /\ \A d \in target_tree.dirs :
              Count(found.skipped_dirs, d) = IF Pruned(d) THEN 1 ELSE 0
        /\ \A i \in 1..Len(found.skipped_dirs) :
              found.skipped_dirs[i] \in target_tree.dirs
        /\ \A i \in 1..Len(found.files), j \in 1..Len(found.skipped_dirs) :
              ~Beneath(found.files[i], found.skipped_dirs[j])

\* a directory below the first level is pruned and holds a file the pattern
\* would keep, while a file elsewhere is returned
C12_Witness ==
    /\ Called
    /\ TargetIsDir
    /\ glob = RecursiveMd
    /\ found.files # <<>>
    /\ \E j \in 1..Len(found.skipped_dirs) :
          /\ Ancestors(found.skipped_dirs[j]) # {}
          /\ JoinPath(found.skipped_dirs[j], <<"a", ".", "m", "d">>)
                \in target_tree.files

IsSortedByStr(list) ==
    \A i \in 1..(Len(list) - 1) : StrLess(list[i], list[i + 1])

\* C13: the file list and the pruned list are each in ascending order of the
\* path string, and a second call on the same tree returns the same two lists
\* whatever the order in which the file system enumerates names.
C13_DiscoveryDeterminism ==
    /\ Called => IsSortedByStr(found.files) /\ IsSortedByStr(found.skipped_dirs)
    /\ dpc = "repeated" => found2 = found

\* two calls whose walks appended files and directories in different orders
C13_Witness ==
    /\ dpc = "repeated"
    /\ TargetIsDir
    /\ Len(found.files) >= 2
    /\ Len(found.skipped_dirs) >= 2
    /\ LET first == Walk(target_tree, <<>>, glob, exclude_set,
                          case_insensitive(platform), walk_order)
           second == Walk(target_tree, <<>>, glob, exclude_set,
                           case_insensitive(platform), walk_order2)
       IN  /\ first.files # second.files
           /\ first.skipped_dirs # second.skipped_dirs
           /\ first.files # found.files


\* the elements of a list
Elements(list) == {list[i] : i \in 1..Len(list)}

NoSeparator(pattern) ==
    \A i \in 1..Len(pattern) : pattern[i] \notin {"/", "\\"}

\* the files directly inside the target
RootFiles == {f \in target_tree.files : Ancestors(f) = {}}

\* C14: for a directory target and a pattern without a path separator, the
\* returned files are exactly the files directly inside the target whose base
\* name matches the pattern (as fnmatch matches on the platform of the call),
\* each once; no file of a subdirectory is returned.
C14_BasenameRootOnly ==
    (Called /\ TargetIsDir /\ NoSeparator(glob)) =>
        /\ Elements(found.files) =
              {f \in RootFiles : fnmatch(f, glob, platform.os_name = "nt")}
        /\ \A f \in Elements(found.files) : Count(found.files, f) = 1
        /\ \A i \in 1..Len(found.files) : Ancestors(found.files[i]) = {}

\* "*.md" returns a.md of the target and leaves a.md of a subdirectory that
\* is not pruned
C14_Witness ==
    /\ Called
    /\ TargetIsDir
    /\ glob = StarMd
    /\ exclude_set = {}
    /\ <<"s", "/", "a", ".", "m", "d">> \in target_tree.files
    /\ found.files = <<<<"a", ".", "m", "d">>>>

\* name ends in ".md"
EndsInMd(name) ==
    /\ Len(name) >= 3
    /\ SubSeq(name, Len(name) - 2, Len(name)) = <<".", "m", "d">>

\* f lies beneath a pruned directory
BeneathPruned(f) == \E a \in Ancestors(f) : Pruned(a)

\* C15: for a directory target and the pattern "**/*.md", the returned files
\* are exactly the files whose name ends in ".md", in the target itself and
\* at every depth below it, that do not lie beneath a pruned directory.
C15_RecursiveMarkdown ==
    (Called /\ TargetIsDir /\ glob = RecursiveMd) =>
        /\ Elements(found.files) =
              {f \in target_tree.files : EndsInMd(PathName(f)) /\ ~BeneathPruned(f)}
        /\ \A f \in Elements(found.files) : Count(found.files, f) = 1

\* a file of the target and a file two directories down are both returned
C15_Witness ==
    /\ Called
    /\ TargetIsDir
    /\ glob = RecursiveMd
    /\ found.files = <<<<"a", ".", "m", "d">>,
                       <<"s", "/", "t", "/", "a", ".", "m", "d">>>>

\* dname differs from an excluded name in letter case only
CaseVariant(dname) ==
    /\ dname \notin exclude_set
    /\ \E e \in exclude_set : casefold(dname) = casefold(e)

\* the directories the call came to whose name is such a variant
ReachedVariants ==
    {d \in target_tree.dirs :
        /\ CaseVariant(PathName(d))
        /\ \A a \in Ancestors(d) : a \notin Elements(found.skipped_dirs)}

\* d was pruned: it is in the pruned list and no file beneath it is returned
WasPruned(d) ==
    /\ d \in Elements(found.skipped_dirs)
    /\ \A f \in Elements(found.files) : ~Beneath(f, d)

\* d was traversed: it is not in the pruned list and, under "**/*.md", its
\* file a.md is returned if it has one
WasTraversed(d) ==
    /\ d \notin Elements(found.skipped_dirs)
    /\ (glob = RecursiveMd /\ JoinPath(d, <<"a", ".", "m", "d">>) \in target_tree.files)
          => JoinPath(d, <<"a", ".", "m", "d">>) \in Elements(found.files)

\* C16 as stated: a directory whose name differs from an excluded name in
\* letter case only is pruned where the file system of the platform is
\* case-insensitive and traversed on every other platform.
C16_CaseByFileSystem ==
    (Called /\ TargetIsDir) =>
        \A d \in ReachedVariants :
            IF platform.fs_case_insensitive THEN WasPruned(d) ELSE WasTraversed(d)

\* C16 amended: such a directory is pruned where os.name is "nt" and
\* traversed on every other platform, whatever its file system does with
\* letter case.
C16_CaseByOsName ==
    (Called /\ TargetIsDir) =>
        \A d \in ReachedVariants :
            IF platform.os_name = "nt" THEN WasPruned(d) ELSE WasTraversed(d)

\* on a posix platform with a case-insensitive file system s/.Git is
\* traversed and its file returned although .git is excluded
C16_Witness ==
    /\ Called
    /\ TargetIsDir
    /\ platform = MacOS
    /\ glob = RecursiveMd
    /\ <<".", "g", "i", "t">> \in exclude_set
    /\ <<"s", "/", ".", "G", "i", "t">> \in ReachedVariants
    /\ <<"s", "/", ".", "G", "i", "t", "/", "a", ".", "m", "d">> \in Elements(found.files)


----------------------------------------------------------------------------
(* Claims about the file date *)

\* the record of files[i] came from a call that got as far as the file date
DateReached(i) == needs_file_date /\ ~ReadFails(i) /\ ~DecodeFails(i)

\* where the last occurrence of dddd-dd or dddd_dd in a path starts, 0 when
\* the path has none
LastOccurrence(path) == LastYearMonthFrom(path, 1, 0)

\* year and month as they are written in s from position p on: "YYYY-MM"
WrittenYearMonth(s, p) == SubSeq(s, p, p + 3) \o <<"-">> \o SubSeq(s, p + 5, p + 6)

MonthNumbers ==
    {<<"0", d>> : d \in {"1", "2", "3", "4", "5", "6", "7", "8", "9"}}
    \cup {<<"1", "0">>, <<"1", "1">>, <<"1", "2">>}

\* the occurrence at position p of a path has a month that is one of 01..12
Usable(path, p) == p # 0 /\ SubSeq(path, p + 5, p + 6) \in MonthNumbers

FallbackGiven == year_month_arg.some

\* the year and month --year-month names, as they are written
FallbackYearMonth == WrittenYearMonth(strip(year_month_arg.value), 1)

\* the year and month of the date a record was given
UsedYearMonth(record) == SubSeq(record.file_date, 1, 7)

YearMonthNotFound == "date_parse_failed: year-month not found in path"

\* what C17 says of a record, p being the last occurrence in its path
LastOccurrenceElseFallback(record, p) ==
    /\ record.file_date # <<>> =>
          IF p # 0
          THEN UsedYearMonth(record) = WrittenYearMonth(record.path, p)
          ELSE FallbackGiven /\ UsedYearMonth(record) = FallbackYearMonth
    /\ record.reason = YearMonthNotFound => p = 0

\* C17 as stated: the date of a file has the year and month of the last
\* occurrence in its path whenever the path has an occurrence, and those of
\* the fallback only when the path has none; a file whose path has an
\* occurrence is never reported to have no year-month.
C17_LastOccurrenceElseFallback ==
    \A i \in 1..Len(records) :
        DateReached(i) =>
            LastOccurrenceElseFallback(records[i], LastOccurrence(files[i]))

\* the same with "usable" for "there": usable says whether the last
\* occurrence has a month of 01..12, has_day whether the file has a day prefix
LastUsableOccurrenceElseFallback(record, p, usable, has_day) ==
    /\ record.file_date # <<>> =>
          IF usable
          THEN UsedYearMonth(record) = WrittenYearMonth(record.path, p)
          ELSE FallbackGiven /\ UsedYearMonth(record) = FallbackYearMonth
    /\ record.reason = YearMonthNotFound
          <=> (has_day /\ ~usable /\ ~FallbackGiven)

HasDayPrefix(path) == _DAY_PREFIX_RE_match(PathStem(path)).found

\* C17 amended: the date of a file has the year and month of the last
\* occurrence in its path when the month of that occurrence is one of
\* 01..12, and those of the fallback otherwise, that is when the path has no
\* occurrence or its last occurrence has another month; a file with a day
\* prefix is reported to have no year-month exactly when neither is there.
C17_LastUsableOccurrenceElseFallback ==
    \A i \in 1..Len(records) :
        DateReached(i) =>
            LastUsableOccurrenceElseFallback(records[i],
                LastOccurrence(files[i]),
                Usable(files[i], LastOccurrence(files[i])),
                HasDayPrefix(files[i]))

\* one run with a fallback in which a file whose path ends in an occurrence
\* with month 13 got the date of the fallback and a file whose path has a
\* usable occurrence got the date of its path
C17_Witness ==
    /\ Completed
    /\ FallbackGiven
    /\ \E i, j \in 1..Len(records) :
          /\ DateReached(i)
          /\ LastOccurrence(files[i]) # 0
          /\ ~Usable(files[i], LastOccurrence(files[i]))
          /\ records[i].file_date = <<"2", "0", "2", "4", "-", "0", "6", "-", "3", "0">>
          /\ Usable(files[j], LastOccurrence(files[j]))
          /\ records[j].file_date = <<"2", "0", "2", "5", "-", "1", "2", "-", "0", "3">>

\* the year and month a file is dated with, as they are written: those of
\* the path if it has usable ones, those of the fallback otherwise
YearMonthFor(path, p) ==
    IF Usable(path, p) THEN WrittenYearMonth(path, p) ELSE FallbackYearMonth

\* day, month and year are a date of the calendar
IsDate(year_month, day) ==
    date_valid(int(SubSeq(year_month, 1, 4)), int(SubSeq(year_month, 6, 7)),
               int(day))

\* the reason a record gives when no date can be derived for a file, "" when
\* one can: day_match is the day prefix of the file, p the last occurrence
\* in its path
DateReasonFor(path, day_match, p) ==
    IF ~day_match.found THEN "date_parse_failed: missing day prefix"
    ELSE IF ~Usable(path, p) /\ ~FallbackGiven THEN YearMonthNotFound
    ELSE IF ~IsDate(YearMonthFor(path, p), day_match.day)
    THEN "date_parse_failed: invalid date"
    ELSE ""

DateReasons == {"date_parse_failed: missing day prefix", YearMonthNotFound,
                "date_parse_failed: invalid date"}

\* what C18 says of the record of files[i], reason being the reason no date
\* can be derived for it
FailsAlone(i, reason) ==
    IF reason # ""
    THEN /\ records[i].status = "error"
         /\ records[i].reason = reason
         /\ records[i].file_date = <<>>
         /\ fsys[files[i]] = fsys0[files[i]]
    ELSE /\ records[i].reason \notin DateReasons
         /\ records[i].file_date # <<>>

\* the record of files[i] is the one process_file makes of that file alone,
\* whatever the other files of the run are and whatever became of them
RecordStandsAlone(i) ==
    \E gen \in GeneratedIds :
        records[i] = process_file(fsys0, files[i], run_payload, apply,
                                  needs_file_date, fallback_year_month,
                                  io_log[i], gen).record

PayloadHasPlaceholder ==
    /\ pc # "start"
    /\ Contains(run_payload, FileDateOpen)

\* the files are enumerated and the path of none has a year and month that
\* can be used, be it that it has none or that the month of its last one is
\* not one of 01..12
NoPathHasYearMonth ==
    /\ pc \notin {"start", "collect"}
    /\ \A i \in 1..Len(files) : ~Usable(files[i], LastOccurrence(files[i]))

\* --year-month is given and reads YYYY-MM or YYYY_MM with a month of 01..12
ValidFallbackGiven ==
    /\ FallbackGiven
    /\ Len(strip(year_month_arg.value)) = 7
    /\ YearMonthAt(strip(year_month_arg.value), 1)
    /\ Usable(strip(year_month_arg.value), 1)

\* C19: when the payload has a date placeholder and no enumerated path has a
\* year-month, a run without --year-month ends at the date check with the
\* usage-error status 1 and the message that asks for --year-month, no file
\* read or written and no record made; a run with a valid --year-month goes
\* through its files, and every date it gives has the fallback year-month.
C19_MissingYearMonthAborts ==
    /\ (~FallbackGiven /\ PayloadHasPlaceholder /\ NoPathHasYearMonth) =>
          /\ pc \in {"date_check", "usage_error"}
          /\ pc = "usage_error" =>
                exit_code = 1 /\ usage_message = MissingYearMonthMessage
          /\ NothingTouched
    /\ (ValidFallbackGiven /\ PayloadHasPlaceholder /\ NoPathHasYearMonth) =>
          /\ pc \in {"date_check", "skipped", "loop", "done"}
          /\ Completed => Len(records) = Len(files)
          /\ \A i \in 1..Len(records) :
                records[i].file_date # <<>> =>
                    UsedYearMonth(records[i]) = FallbackYearMonth

\* a run without --year-month over two files without a year-month in their
\* paths has ended with the usage error
C19_Witness ==
    /\ PayloadHasPlaceholder
    /\ NoPathHasYearMonth
    /\ ~FallbackGiven
    /\ Len(files) = 2
    /\ pc = "usage_error"
    /\ usage_message = MissingYearMonthMessage
    /\ NothingTouched

\* process_file called transform_markdown for the record
CallMadeFor(record) ==
    /\ record.reason \notin {"read_failed", "decode_failed"} \cup DateReasons

\* the date a record gives: [year, month, day]
DateOf(record) ==
    [year |-> int(SubSeq(record.file_date, 1, 4)),
     month |-> int(SubSeq(record.file_date, 6, 7)),
     day |-> int(SubSeq(record.file_date, 9, 10))]

\* the shared payload with the date of the record in the place of every
\* placeholder
PayloadFor(record) ==
    IF record.file_date # <<>>
    THEN substitute_file_date_tokens(run_payload, DateOf(record))
    ELSE run_payload

\* what C20 says of the call made for the record the loop has just appended
OwnPayload(record) ==
    CallMadeFor(record) =>
        /\ tpc = "returned"
        /\ payload_text = PayloadFor(record)
        /\ \A j \in 1..(Len(records) - 1) :
              (records[j].file_date # <<>>
                  /\ records[j].file_date # record.file_date)
                 => ~Contains(result.text, records[j].file_date)

\* C20: from the moment it is normalised the shared payload of a run is the
\* payload main loaded, whatever files were processed; the payload of the call
\* of transform_markdown made for a file is that payload with the date of this
\* file substituted, and the text the call returns holds the date of no
\* earlier file that has another date.
C20_PerDocumentPayload ==
    /\ pc \in {"collect", "date_check", "skipped", "loop", "done"}
          => run_payload = load_payload(payload_file).value
    /\ (pc = "loop" /\ records # <<>>) => OwnPayload(records[Len(records)])

\* an apply run that dated two files differently: the second file was
\* rewritten with its own date and without the date of the first
C20_Witness ==
    /\ Completed
    /\ apply
    /\ needs_file_date
    /\ Len(records) = 2
    /\ records[1].status = "changed"
    /\ records[2].status = "changed"
    /\ records[1].file_date # records[2].file_date
    /\ Contains(payload_text, records[2].file_date)
    /\ Contains(fsys[files[1]], records[1].file_date)
    /\ Contains(fsys[files[2]], records[2].file_date)
    /\ ~Contains(fsys[files[2]], records[1].file_date)

----------------------------------------------------------------------------
(* C21 *)

NormalizeReturned == npc \in {"returned", "again"}

\* the payload text handed in, without one leading byte order mark
GivenPayload ==
    IF raw_payload # <<>> /\ raw_payload[1] = BOM
    THEN SubSeq(raw_payload, 2, Len(raw_payload))
    ELSE raw_payload

\* the first line of the payload is exactly "---"
Wrapped == LineContents(GivenPayload) # <<>> /\ LineContents(GivenPayload)[1] = Dashes

\* line k of the payload is the first line after the first that is "---" or "..."
FirstClosingLine(k) ==
    /\ k \in 2..Len(LineContents(GivenPayload))
    /\ LineContents(GivenPayload)[k] \in {Dashes, Dots}
    /\ \A j \in 2..(k - 1) : LineContents(GivenPayload)[j] \notin {Dashes, Dots}

\* the text of lines a..b of the payload, terminators included
LinesOf(a, b) == Concat(SubSeq(splitlines(GivenPayload), a, b))

\* C21: for a payload whose first line, after one leading byte order mark is
\* stripped, is exactly "---", normalize returns exactly the text of the lines
\* strictly between that line and the first later line equal to "---" or
\* "..."; a payload whose first line is not "---" is returned unchanged.
C21_WrappedUnwrapping ==
    NormalizeReturned =>
        IF Wrapped
        THEN \A k \in 2..Len(LineContents(GivenPayload)) :
                 FirstClosingLine(k) =>
                     /\ ~normalized.raised
                     /\ normalized.value = LinesOf(2, k - 1)
        ELSE /\ ~normalized.raised
             /\ normalized.value = GivenPayload

\* a wrapped payload with a line between the delimiters and a line after the
\* closing one
C21_Witness ==
    /\ NormalizeReturned
    /\ Wrapped
    /\ \E k \in 3..(Len(LineContents(GivenPayload)) - 1) : FirstClosingLine(k)
    /\ normalized.value # <<>>

----------------------------------------------------------------------------
(* C22 *)

HyphenPositions == {9, 14, 19, 24}

LowercaseHex == {HexChars[i] : i \in 1..16}

\* the 32 hexadecimal characters of an identifier, hyphens left out
HexOf(id) ==
    LET at == {i \in 1..Len(id) : i \notin HyphenPositions}
        nth(n) == CHOOSE i \in at : Cardinality({j \in at : j < i}) = n - 1
    IN  [n \in 1..Cardinality(at) |-> id[nth(n)]]

\* digit i of the 12 hexadecimal digits of c modulo 2^48: the digits of c
\* from 16^11 down to 16^0
TimestampDigit(c, i) ==
    IF Len(c) - 12 + i >= 1 THEN c[Len(c) - 12 + i] ELSE 0

\* C22: the generated identifier has 36 characters, lowercase hexadecimal in
\* five groups of 8, 4, 4, 4 and 12 separated by hyphens; its first 48 bits
\* are the millisecond clock modulo 2^48; the first character of the third
\* group is 7; the top two bits of the fourth group are 10; it is never the
\* literal {uuidv7}.
C22_IdentifierFormat ==
    gpc = "returned" =>
        /\ Len(generated) = 36
        /\ \A i \in 1..36 :
              IF i \in HyphenPositions THEN generated[i] = "-"
              ELSE generated[i] \in LowercaseHex
        /\ \A i \in 1..12 :
              HexOf(generated)[i] = HexChars[TimestampDigit(clock, i) + 1]
        /\ generated[15] = "7"
        /\ generated[20] \in {"8", "9", "a", "b"}
        /\ generated # UuidToken

\* an identifier generated when the clock has passed 2^48 milliseconds and
\* the random draws have their top bits set
C22_Witness ==
    /\ gpc = "returned"
    /\ Len(clock) > 12
    /\ rand_a = <<15, 15, 15>>
    /\ rand_b[1] = 3
    /\ Len(rand_b) = 16
    /\ Len(generated) = 36

----------------------------------------------------------------------------
(* C23 *)

\* the call is on the preservation path: preservation is asked for and the
\* document's front matter has a column-zero uuid line
PreservationPath == Succeeded /\ preserve_uuid /\ DocHasUuid

\* the identifier the document has
ExistingIdentifier == FirstUuidValue(DocParsed.frontmatter)

\* the lines of the payload the transform works on
PayloadLines == LineContents(normalize_payload_text(payload_text).value)

\* a uuid line up to its value: key, colon and the blanks around the colon
UpToValue(c) ==
    LET stops == {q \in (UuidColon(c) + 1)..(Len(c) + 1) :
                     q = Len(c) + 1 \/ c[q] \notin {SP, TAB}}
    IN  SubSeq(c, 1, SetMin(stops) - 1)

\* the payload lines with the identifier inserted as the claim describes it
WithIdentifier(lines, value) ==
    LET hits == {i \in 1..Len(lines) : IsUuidLine(lines[i])}
    IN  IF hits = {}
        THEN <<UuidKey \o <<":", SP>> \o value>> \o lines
        ELSE [i \in 1..Len(lines) |->
                 IF i = SetMin(hits) THEN UpToValue(lines[i]) \o value
                 ELSE lines[i]]

\* the output starts with a "---" line, then has exactly these lines, then a
\* "---" line
BlockLinesAre(expected) ==
    /\ Len(LineContents(result.text)) >= Len(expected) + 2
    /\ SubSeq(LineContents(result.text), 1, Len(expected) + 2)
           = <<Dashes>> \o expected \o <<Dashes>>

\* C23: on the preservation path, a payload with a column-zero uuid line has
\* only the value on that line replaced by the existing identifier, any other
\* payload gets exactly one line "uuid: <value>" prepended; every other
\* payload line is in the output unchanged and in its original order.
C23_InsertionLeavesRest ==
    PreservationPath =>
        BlockLinesAre(WithIdentifier(PayloadLines, ExistingIdentifier))

----------------------------------------------------------------------------
(* C24 *)

\* the body B of the document of the call
DocBody == IF DocParsed.had THEN DocParsed.body ELSE DocText

\* the line terminator that follows the opening "---" of the output
OutNewline == IF Len(result.text) >= 4 /\ result.text[4] = CR THEN <<CR, LF>> ELSE <<LF>>

\* the payload block the call emitted: what the output has between its opening
\* "---" line and the "---" line written in front of the body
EmittedBlock ==
    SubSeq(result.text, 4 + Len(OutNewline),
           Len(result.text) - Len(DocBody) - 3 - Len(OutNewline))

\* C24: parsing the output of a successful transform yields a front-matter
\* block that is present and not malformed, whose text is the emitted payload
\* block and whose body is the body of the document, character for character.
C24_ComposeParseRoundTrip ==
    Succeeded =>
        /\ OutParsed.had
        /\ OutParsed.error = ""
        /\ OutParsed.frontmatter = EmittedBlock
        /\ OutParsed.body = DocBody

----------------------------------------------------------------------------
(* C25 *)

\* C25: for every payload on which normalize succeeds, normalizing the result
\* again also succeeds and returns the same text.
C25_NormalizeIdempotent ==
    npc = "again" =>
        /\ ~renormalized.raised
        /\ renormalized.value = normalized.value

====
